---- MODULE Spec2Model ----
(***************************************************************************)
(* The OCR job orchestration of visekai: JobService (SubmitJob, GetJob,    *)
(* GetJobResult, CancelJob, DeleteJob, ProcessNextJob and the processJob   *)
(* goroutine) behind JobHandler, over the documents, ocr_jobs and          *)
(* ocr_results tables as the repositories read and write them.  Every      *)
(* store call of a handler is one atomic step (one SQL statement); the     *)
(* steps of concurrent handlers and goroutines interleave freely.          *)
(*                                                                         *)
(* Spec is the dispatch core: the calls that change a job, with            *)
(* ProcessNextJob as a second source of dispatches.  SpecApi is the HTTP   *)
(* API as main wires it: every job endpoint with every caller, the          *)
(* refused calls and the reads included, the deletion of a document, and   *)
(* the goroutines SubmitJob starts (no route calls ProcessNextJob).        *)
(* SpecList runs the list queries on tables of a few jobs, SpecLimit is    *)
(* the rate limiter of the auth group under requests and passing time,     *)
(* SpecUpload the document endpoints that write (Upload, Delete).          *)
(* SpecRepo applies the writes of JobRepository in any order, and SpecLive *)
(* is the API with a store that answers every call and goroutines that are *)
(* run fairly.                                                             *)
(***************************************************************************)
EXTENDS Integers, Sequences, FiniteSets, Bags, TLC

\* Bounds of the model.
MaxJobs == 1            \* jobs ever submitted
MaxPulls == 1           \* ProcessNextJob calls that launch a dispatch
MaxCancels == 1         \* CancelJob calls that pass the status check (Spec)
MaxApiCancels == 2      \* CancelJob calls that pass the status check (SpecApi)
MaxDeletes == 1         \* DeleteJob calls that pass the status check
MaxStoreFailures == 1   \* store calls that return a database error
MaxEngineCalls == 5     \* calls of the OCR engine per job
MaxListed == 3          \* jobs in the table the list queries run on (SpecList)
TicksPerMinute == 2     \* resolution of the clock (SpecLimit)
MaxRequests == 12       \* requests to the auth group (SpecLimit)
MaxFineTicks == 3       \* single ticks at the start of each cleanup period,
                        \* the rest of the period passing at once (SpecLimit)
MaxUploads == 2         \* Upload requests (SpecUpload)
MaxRepoJobs == 2        \* jobs created (SpecRepo)
MaxRepoWrites == 1      \* writes of started_at, and of retry_count, per job (SpecRepo)

\* SubmitJob: MaxRetries: 3
DefaultMaxRetries == 3

\* middleware.NewRateLimiter(10, 1*time.Minute) on the auth group.
AuthRate == 10
AuthWindow == 1 * TicksPerMinute

\* cleanupVisitors: time.NewTicker(5 * time.Minute) and
\* now.Sub(v.lastSeen) > 10*time.Minute
CleanupPeriod == 5 * TicksPerMinute
CleanupAge == 10 * TicksPerMinute

\* The clock stops here: the first cleanup that can remove a visitor and a
\* window after it.
MaxClock == CleanupAge + CleanupPeriod + AuthWindow

VARIABLES
    jobs,           \* ocr_jobs: job id -> row, for the rows in the table
    results,        \* ocr_results: job id -> payloads of the rows with that job_id
    procs,          \* bag of running processJob goroutines
    cancels,        \* job id -> CancelJob calls between their read and their write
    deletes,        \* job id -> DeleteJob calls between their read and their write
    engineLog,      \* job id -> outcomes of the engine calls made for it, in order
    cancelOver,     \* job id -> the status the cancel that set cancelled overwrote,
                    \* and whether a dispatch was at its engine call then (history)
    submitted,      \* number of jobs created so far (the next id and created_at)
    storeFailures,  \* store calls that have failed so far
    nPulls,         \* ProcessNextJob dispatches so far
    nCancels,       \* CancelJob calls admitted so far
    nDeletes,       \* DeleteJob calls admitted so far
    docs,           \* documents: document id -> row
    resp,           \* the HTTP response written in the last step, if any
    visitors,       \* RateLimiter.visitors of the auth group: ip -> Visitor
    clock,          \* time.Now(), in ticks
    admitted,       \* ip -> times of the requests allow let through during
                    \* the window that ends now (history)
    nRequests,      \* requests to the auth group so far
    uploads,        \* the Upload requests so far, each with its position
    files           \* paths of the files in storage

limiterVars == <<visitors, clock, admitted, nRequests>>
uploadVars == <<uploads, files>>

vars == <<jobs, results, procs, cancels, deletes, engineLog, cancelOver,
          submitted, storeFailures, nPulls, nCancels, nDeletes, docs, resp,
          limiterVars, uploadVars>>

JobIds == 1..MaxJobs

\* The authenticated callers (middleware.GetUserID).
Users == {"alice", "bob"}

\* The document ids requests name: document 1 is uploaded (by alice),
\* document 2 does not exist unless an Upload creates it.
DocRefs == {1, 2}

\* c.ClientIP() of the requests to the auth group.
IPs == {"10.0.0.1", "10.0.0.2"}

\* The SHA-256 of the contents uploaded (storage.SaveFile).
Hashes == {"a", "b"}

\* A row of documents: the owner, the content hash, the path of the file
\* and whether deleted_at is set.
Document(owner, hash, path) ==
    [user_id |-> owner, file_hash |-> hash, file_path |-> path, deleted |-> FALSE]

\* models.JobStatus
JobStatusPending == "pending"
JobStatusProcessing == "processing"
JobStatusCompleted == "completed"
JobStatusFailed == "failed"
JobStatusCancelled == "cancelled"

Terminal == {JobStatusCompleted, JobStatusFailed, JobStatusCancelled}

\* error_message values: NULL, and the three texts processJob formats.
NoMsg == <<>>
DocMsg == <<"Failed to get document">>
OcrMsg(call) == <<"OCR processing failed", call>>
SaveMsg == <<"Failed to save result">>

\* The priorities SubmitJob is called with.
Priorities == {0}

\* The ocr_mode and resolution_mode SubmitJob is called with.
OcrModes == {"document"}
ResolutionModes == {"base"}

\* A Create that stores the job as already retried once.
NewJobRetried(caller, d, mode, res, prio, now) ==
    [user_id |-> caller,
     document_id |-> d,
     ocr_mode |-> mode,
     resolution_mode |-> res,
     status |-> JobStatusPending,
     retry_count |-> 1,
     max_retries |-> DefaultMaxRetries,
     progress_percentage |-> 0,
     started_at |-> 0,
     completed_at |-> FALSE,
     error_message |-> NoMsg,
     priority |-> prio,
     created_at |-> now]

\* JobRepository.Create: the row SubmitJob inserts.
NewJob(caller, d, mode, res, prio, now) ==
    [user_id |-> caller,
     document_id |-> d,
     ocr_mode |-> mode,
     resolution_mode |-> res,
     status |-> JobStatusPending,
     retry_count |-> 0,
     max_retries |-> DefaultMaxRetries,
     progress_percentage |-> 0,
     started_at |-> 0,
     completed_at |-> FALSE,
     error_message |-> NoMsg,
     priority |-> prio,
     created_at |-> now]

\* An UpdateStatus whose terminal branch does not store the error message.
UpdateStatusNoMessage(row, status, errorMessage, now) ==
    IF status = JobStatusProcessing
    THEN [row EXCEPT !.status = status, !.started_at = now]
    ELSE IF status \in Terminal
    THEN [row EXCEPT !.status = status,
                     !.completed_at = TRUE,
                     !.progress_percentage = 100]
    ELSE [row EXCEPT !.status = status]

\* An UpdateStatus whose terminal branches all store progress 100.
UpdateStatusFullProgress(row, status, errorMessage, now) ==
    IF status = JobStatusProcessing
    THEN [row EXCEPT !.status = status, !.started_at = now]
    ELSE IF status \in Terminal
    THEN [row EXCEPT !.status = status,
                     !.completed_at = TRUE,
                     !.error_message = IF errorMessage # NoMsg THEN errorMessage ELSE @,
                     !.progress_percentage = 100]
    ELSE [row EXCEPT !.status = status]

\* JobRepository.UpdateStatus: the row after the UPDATE the switch selects.
\* now is the time of the write (started_at 0 is NULL).
UpdateStatus(row, status, errorMessage, now) ==
    IF status = JobStatusProcessing
    THEN [row EXCEPT !.status = status, !.started_at = now]
    ELSE IF status \in Terminal
    THEN IF errorMessage # NoMsg
         THEN [row EXCEPT !.status = status,
                          !.completed_at = TRUE,
                          !.error_message = errorMessage,
                          !.progress_percentage =
                              IF status = JobStatusCompleted THEN 100 ELSE 0]
         ELSE [row EXCEPT !.status = status,
                          !.completed_at = TRUE,
                          !.progress_percentage = 100]
    ELSE [row EXCEPT !.status = status]

\* JobRepository.UpdateProgress: SET progress_percentage = progress.
UpdateProgress(row, progress) ==
    [row EXCEPT !.progress_percentage = progress]

\* JobRepository.IncrementRetryCount: retry_count = retry_count + 1.
IncrementRetryCount(row) ==
    [row EXCEPT !.retry_count = row.retry_count + 1]

\* time.Now() at a write of started_at: later than every time stored in the
\* row, so started_at is the ordinal of the write that stamped it.
Now(row) == row.started_at + 1

\* A store call either succeeds or returns a database error.
Fails == IF storeFailures < MaxStoreFailures THEN {FALSE, TRUE} ELSE {FALSE}

Count(fail) == IF fail THEN storeFailures + 1 ELSE storeFailures

\* An UPDATE without its WHERE id = j: every row is replaced.
SetEveryRow(j, row) == [k \in DOMAIN jobs |-> row]

\* The table with row j replaced.
SetRow(j, row) == [jobs EXCEPT ![j] = row]

\* A write to job j's row: no row is affected when the job is gone or the
\* statement fails.
WriteRow(j, row, fail) ==
    IF fail \/ j \notin DOMAIN jobs THEN jobs ELSE SetRow(j, row)

\* A goroutine running processJob(jobID).
Proc(j, pc, rc, mr, call, d) ==
    [job |-> j, pc |-> pc, rc |-> rc, mr |-> mr, call |-> call, doc |-> d]

Spawn(j) == Proc(j, "start", 0, 0, 0, 0)

Running == BagToSet(procs)

Replace(p, q) == (procs (-) SetToBag({p})) (+) SetToBag({q})

Exit(p) == procs (-) SetToBag({p})

\* The errors the services and repositories return (err.Error(), the wrapped
\* error as a second element); Ok is the nil error.
Ok == <<>>
ErrJobNotFound == <<"job not found">>
ErrGetJob == <<"failed to get job">>
ErrUnauthorizedJob == <<"unauthorized: job does not belong to user">>
ErrCannotCancel(status) == <<"cannot cancel job with status", status>>
ErrCancelJob(cause) == <<"failed to cancel job", cause>>
ErrCannotDelete == <<"cannot delete active job, cancel it first">>
ErrDeleteJob(cause) == <<"failed to delete job", cause>>
ErrDocumentNotFound(cause) == <<"document not found", cause>>
ErrUnauthorizedDocument == <<"unauthorized: document does not belong to user">>
ErrCreateJob == <<"failed to create job">>
ErrResultNotFound == <<"result not found">>
ErrGetResult == <<"failed to get result">>

\* DocumentRepository.GetByID finds a row: WHERE id = d AND deleted_at IS NULL.
DocVisible(table, d) == d \in DOMAIN table /\ ~table[d].deleted

\* A document check that does not compare the owner.
DocumentCheckAnyOwner(table, caller, d, fail) ==
    IF fail THEN ErrDocumentNotFound("failed to get document")
    ELSE IF ~DocVisible(table, d) THEN ErrDocumentNotFound("document not found")
    ELSE Ok

\* SubmitJob: the document exists and belongs to the caller; the error it
\* returns otherwise.  fail: the SELECT returns a database error.
DocumentCheck(table, caller, d, fail) ==
    IF fail THEN ErrDocumentNotFound("failed to get document")
    ELSE IF ~DocVisible(table, d) THEN ErrDocumentNotFound("document not found")
    ELSE IF table[d].user_id # caller THEN ErrUnauthorizedDocument
    ELSE Ok

\* A job check that does not compare the owner.
JobCheckAnyOwner(table, caller, j, fail) ==
    IF fail THEN ErrGetJob
    ELSE IF j \notin DOMAIN table THEN ErrJobNotFound
    ELSE Ok

\* GetJob, CancelJob, DeleteJob, GetJobResult: jobRepo.GetByID and the
\* ownership check; the error they return otherwise.
JobCheck(table, caller, j, fail) ==
    IF fail THEN ErrGetJob
    ELSE IF j \notin DOMAIN table THEN ErrJobNotFound
    ELSE IF table[j].user_id # caller THEN ErrUnauthorizedJob
    ELSE Ok

\* CancelJob up to its status check.
CancelCheck(table, caller, j, fail) ==
    IF JobCheck(table, caller, j, fail) # Ok THEN JobCheck(table, caller, j, fail)
    ELSE IF table[j].status \in Terminal THEN ErrCannotCancel(table[j].status)
    ELSE Ok

\* DeleteJob up to its status check.
DeleteCheck(table, caller, j, fail) ==
    IF JobCheck(table, caller, j, fail) # Ok THEN JobCheck(table, caller, j, fail)
    ELSE IF table[j].status \in {JobStatusPending, JobStatusProcessing}
    THEN ErrCannotDelete
    ELSE Ok

\* An HTTP response: status code, error code, message, data.
Response(status, code, message, data) ==
    [status |-> status, code |-> code, message |-> message, data |-> data]

NoData == <<>>

\* JobHandler.SubmitJob: the response to the service's return.
SubmitJobResponse(err, data) ==
    IF err # Ok
    THEN Response(400, "JOB_001", err, NoData)
    ELSE Response(201, "", <<"OCR job submitted successfully">>, data)

\* JobHandler.GetJob.
GetJobResponse(err, data) ==
    IF err # Ok
    THEN Response(404, "RES_003", <<"Job not found">>, NoData)
    ELSE Response(200, "", <<"Job retrieved successfully">>, data)

\* JobHandler.CancelJob.
CancelJobResponse(err) ==
    IF err # Ok
    THEN Response(400, "JOB_002", err, NoData)
    ELSE Response(200, "", <<"Job cancelled successfully">>, NoData)

\* JobHandler.DeleteJob.
DeleteJobResponse(err) ==
    IF err # Ok
    THEN Response(400, "JOB_003", err, NoData)
    ELSE Response(200, "", <<"Job deleted successfully">>, NoData)

\* JobHandler.GetJobResult.
GetJobResultResponse(err, data) ==
    IF err # Ok
    THEN Response(404, "RES_004", <<"Result not found">>, NoData)
    ELSE Response(200, "", <<"Result retrieved successfully">>, data)

\* DocumentHandler.Delete, past its document and ownership checks.
DeleteDocumentResponse(fail) ==
    IF fail
    THEN Response(500, "SYS_005", <<"Failed to delete document">>, NoData)
    ELSE Response(200, "", <<"Document deleted successfully">>, NoData)

\* The response a step writes: the endpoint, the caller, the id in the
\* request and the response.
Replied(op, caller, ref, out) ==
    [op |-> op, caller |-> caller, ref |-> ref, out |-> out]

\* The step wrote no response.
NoResp == Replied("none", "", 0, Response(0, "", <<>>, NoData))

\* JobRepository.GetByUserID: the jobs ListJobs returns to the caller.
ListJobs(caller) == {j \in DOMAIN jobs : jobs[j].user_id = caller}

\* The tables before any job is submitted; document 1 was uploaded by alice.
Init ==
    /\ jobs = << >>
    /\ results = [j \in JobIds |-> << >>]
    /\ procs = EmptyBag
    /\ cancels = [j \in JobIds |-> [u \in Users |-> 0]]
    /\ deletes = [j \in JobIds |-> [u \in Users |-> 0]]
    /\ engineLog = [j \in JobIds |-> << >>]
    /\ cancelOver = [j \in JobIds |-> [was |-> "none", engine |-> FALSE]]
    /\ submitted = 0
    /\ storeFailures = 0
    /\ nPulls = 0
    /\ nCancels = 0
    /\ nDeletes = 0
    /\ docs = (1 :> Document("alice", "a", 0))
    /\ resp = NoResp
    /\ visitors = << >>
    /\ clock = 0
    /\ admitted = [ip \in IPs |-> << >>]
    /\ nRequests = 0
    /\ uploads = << >>
    /\ files = {0}

\* SubmitJob past the document check: jobRepo.Create, go processJob.
SubmitJob(caller, d) ==
    /\ submitted < MaxJobs
    /\ DocumentCheck(docs, caller, d, FALSE) = Ok
    /\ \E mode \in OcrModes, res \in ResolutionModes, prio \in Priorities,
          fail \in Fails :
          LET j == submitted + 1
              job == NewJob(caller, d, mode, res, prio, j) IN
          /\ storeFailures' = Count(fail)
          /\ IF fail
             THEN /\ UNCHANGED <<jobs, procs, submitted>>
                  /\ resp' = Replied("SubmitJob", caller, d,
                                     SubmitJobResponse(ErrCreateJob, NoData))
             ELSE /\ jobs' = jobs @@ (j :> job)
                  /\ procs' = procs (+) SetToBag({Spawn(j)})
                  /\ submitted' = j
                  /\ resp' = Replied("SubmitJob", caller, d,
                                     SubmitJobResponse(Ok, <<job>>))
    /\ UNCHANGED <<results, cancels, deletes, engineLog, cancelOver,
                   nPulls, nCancels, nDeletes, docs,
                   limiterVars, uploadVars>>

\* SubmitJob refused by the document check.
SubmitRefused(caller, d) ==
    /\ \E fail \in Fails :
          /\ DocumentCheck(docs, caller, d, fail) # Ok
          /\ storeFailures' = Count(fail)
          /\ resp' = Replied("SubmitJob", caller, d,
                             SubmitJobResponse(DocumentCheck(docs, caller, d, fail),
                                               NoData))
    /\ UNCHANGED <<jobs, results, procs, cancels, deletes, engineLog, cancelOver,
                   submitted, nPulls, nCancels, nDeletes, docs,
                   limiterVars, uploadVars>>

\* GetJob: GetByID, the ownership check, the job.
GetJob(caller, j) ==
    /\ \E fail \in Fails :
          LET err == JobCheck(jobs, caller, j, fail) IN
          /\ storeFailures' = Count(fail)
          /\ resp' = Replied("GetJob", caller, j,
                             GetJobResponse(err, IF err = Ok THEN <<jobs[j]>> ELSE NoData))
    /\ UNCHANGED <<jobs, results, procs, cancels, deletes, engineLog, cancelOver,
                   submitted, nPulls, nCancels, nDeletes, docs,
                   limiterVars, uploadVars>>

\* GetJobResult: GetByID, the ownership check, resultRepo.GetByJobID (the
\* SELECT returns one of the rows with that job_id).  The response depends on
\* the tables as the second SELECT finds them.
GetJobResult(caller, j) ==
    /\ \E fail \in Fails :
          LET err == JobCheck(jobs, caller, j, fail) IN
          /\ storeFailures' = Count(fail)
          /\ IF err # Ok
             THEN resp' = Replied("GetJobResult", caller, j,
                                  GetJobResultResponse(err, NoData))
             ELSE IF results[j] = << >>
             THEN resp' = Replied("GetJobResult", caller, j,
                                  GetJobResultResponse(ErrResultNotFound, NoData))
             ELSE \E i \in 1..Len(results[j]) :
                     resp' = Replied("GetJobResult", caller, j,
                                     GetJobResultResponse(Ok, <<results[j][i]>>))
    /\ UNCHANGED <<jobs, results, procs, cancels, deletes, engineLog, cancelOver,
                   submitted, nPulls, nCancels, nDeletes, docs,
                   limiterVars, uploadVars>>

\* DocumentHandler.Delete by the owner of a document: SoftDelete.
DeleteDocument(caller, d) ==
    /\ DocumentCheck(docs, caller, d, FALSE) = Ok
    /\ \E fail \in Fails :
          /\ storeFailures' = Count(fail)
          /\ docs' = IF fail THEN docs ELSE [docs EXCEPT ![d].deleted = TRUE]
          /\ resp' = Replied("DeleteDocument", caller, d, DeleteDocumentResponse(fail))
    /\ UNCHANGED <<jobs, results, procs, cancels, deletes, engineLog, cancelOver,
                   submitted, nPulls, nCancels, nDeletes,
                   limiterVars, uploadVars>>

\* ProcessNextJob: GetPendingJobs(1), then go processJob on the first job.
Pending == {j \in DOMAIN jobs : jobs[j].status = JobStatusPending}

\* An ORDER BY created_at ASC alone.
BeforeByAgeOnly(a, b) == jobs[a].created_at <= jobs[b].created_at

\* GetPendingJobs: ORDER BY priority DESC, created_at ASC.
Before(a, b) ==
    \/ jobs[a].priority > jobs[b].priority
    \/ /\ jobs[a].priority = jobs[b].priority
       /\ jobs[a].created_at <= jobs[b].created_at

FirstPending == CHOOSE j \in Pending : \A k \in Pending : Before(j, k)

ProcessNextJob ==
    /\ nPulls < MaxPulls
    /\ Pending # {}
    /\ \E fail \in Fails :
          /\ storeFailures' = Count(fail)
          /\ procs' = IF fail THEN procs ELSE procs (+) SetToBag({Spawn(FirstPending)})
    /\ nPulls' = nPulls + 1
    /\ resp' = NoResp
    /\ UNCHANGED <<jobs, results, cancels, deletes, engineLog, cancelOver,
                   submitted, nCancels, nDeletes, docs,
                   limiterVars, uploadVars>>

\* What a processJob step leaves alone besides the tables and the log; a
\* goroutine writes no response.
ProcFrame ==
    /\ resp' = NoResp
    /\ UNCHANGED <<cancels, deletes, cancelOver, submitted,
                   nPulls, nCancels, nDeletes, docs,
                   limiterVars, uploadVars>>

\* processJob without its pending check: any job found is claimed.
ProcGetAnyStatus(p) ==
    /\ p.pc = "start"
    /\ \E fail \in Fails :
          /\ storeFailures' = Count(fail)
          /\ procs' =
               IF fail \/ p.job \notin DOMAIN jobs
               THEN Exit(p)
               ELSE Replace(p, Proc(p.job, "claim", jobs[p.job].retry_count,
                                    jobs[p.job].max_retries, 0,
                                    jobs[p.job].document_id))
    /\ UNCHANGED <<jobs, results, engineLog>>
    /\ ProcFrame

\* processJob: jobRepo.GetByID and the pending check.
ProcGet(p) ==
    /\ p.pc = "start"
    /\ \E fail \in Fails :
          /\ storeFailures' = Count(fail)
          /\ procs' =
               IF fail \/ p.job \notin DOMAIN jobs
               THEN Exit(p)
               ELSE IF jobs[p.job].status # JobStatusPending
               THEN Exit(p)
               ELSE Replace(p, Proc(p.job, "claim", jobs[p.job].retry_count,
                                    jobs[p.job].max_retries, 0,
                                    jobs[p.job].document_id))
    /\ UNCHANGED <<jobs, results, engineLog>>
    /\ ProcFrame

\* processJob: UpdateStatus(processing); an error ends the dispatch.
ProcClaim(p) ==
    /\ p.pc = "claim"
    /\ \E fail \in Fails :
          /\ storeFailures' = Count(fail)
          /\ IF fail \/ p.job \notin DOMAIN jobs
             THEN /\ procs' = Exit(p)
                  /\ jobs' = jobs
             ELSE /\ procs' = Replace(p, [p EXCEPT !.pc = "getdoc"])
                  /\ jobs' = SetRow(p.job, UpdateStatus(jobs[p.job], JobStatusProcessing,
                                                        NoMsg, Now(jobs[p.job])))
    /\ UNCHANGED <<results, engineLog>>
    /\ ProcFrame

\* processJob: documentRepo.GetByID; a soft-deleted document is not found.
ProcGetDoc(p) ==
    /\ p.pc = "getdoc"
    /\ \E fail \in Fails :
          /\ storeFailures' = Count(fail)
          /\ procs' = Replace(p, [p EXCEPT !.pc = IF fail \/ ~DocVisible(docs, p.doc)
                                                  THEN "docfailed" ELSE "engine"])
    /\ UNCHANGED <<jobs, results, engineLog>>
    /\ ProcFrame

\* The table after jobRepo.UpdateStatus(j, status, errorMessage): unchanged
\* when the statement fails or affects no row (the callers in processJob
\* discard that error, CancelJob returns it).
WriteStatus(j, status, errorMessage, fail) ==
    IF j \in DOMAIN jobs
    THEN WriteRow(j, UpdateStatus(jobs[j], status, errorMessage, Now(jobs[j])), fail)
    ELSE jobs

\* processJob: the document is missing: UpdateStatus(failed, msg), return.
ProcDocFailed(p) ==
    /\ p.pc = "docfailed"
    /\ \E fail \in Fails :
          /\ storeFailures' = Count(fail)
          /\ jobs' = WriteStatus(p.job, JobStatusFailed, DocMsg, fail)
    /\ procs' = Exit(p)
    /\ UNCHANGED <<results, engineLog>>
    /\ ProcFrame

\* processJob: ocrClient.ProcessDocument returns a response or an error.
ProcEngine(p) ==
    /\ p.pc = "engine"
    /\ Len(engineLog[p.job]) < MaxEngineCalls
    /\ \E outcome \in {"ok", "fail"} :
          /\ engineLog' = [engineLog EXCEPT ![p.job] = Append(@, outcome)]
          /\ procs' = Replace(p, [p EXCEPT !.call = Len(engineLog[p.job]) + 1,
                                           !.pc = IF outcome = "ok" THEN "save"
                                                  ELSE "markfailed"])
    /\ UNCHANGED <<jobs, results, storeFailures>>
    /\ ProcFrame

\* The retry decision, on the job as processJob read it at its start.
ShouldRetry(p) == p.rc < p.mr

\* processJob: the engine failed: UpdateStatus(failed, msg), then the retry check.
ProcMarkFailed(p) ==
    /\ p.pc = "markfailed"
    /\ \E fail \in Fails :
          /\ storeFailures' = Count(fail)
          /\ jobs' = WriteStatus(p.job, JobStatusFailed, OcrMsg(p.call), fail)
    /\ procs' = IF ShouldRetry(p) THEN Replace(p, [p EXCEPT !.pc = "incr"]) ELSE Exit(p)
    /\ UNCHANGED <<results, engineLog>>
    /\ ProcFrame

\* processJob: IncrementRetryCount, its error discarded.
ProcIncrement(p) ==
    /\ p.pc = "incr"
    /\ \E fail \in Fails :
          /\ storeFailures' = Count(fail)
          /\ jobs' = IF p.job \in DOMAIN jobs
                     THEN WriteRow(p.job, IncrementRetryCount(jobs[p.job]), fail)
                     ELSE jobs
    /\ procs' = Replace(p, [p EXCEPT !.pc = "requeue"])
    /\ UNCHANGED <<results, engineLog>>
    /\ ProcFrame

\* processJob: UpdateStatus(pending), its error discarded.
ProcRequeue(p) ==
    /\ p.pc = "requeue"
    /\ \E fail \in Fails :
          /\ storeFailures' = Count(fail)
          /\ jobs' = WriteStatus(p.job, JobStatusPending, NoMsg, fail)
    /\ procs' = Replace(p, [p EXCEPT !.pc = "backoff"])
    /\ UNCHANGED <<results, engineLog>>
    /\ ProcFrame

\* A retry whose goroutine returns after the sleep without go processJob.
ProcRedispatchDropped(p) ==
    /\ p.pc = "backoff"
    /\ procs' = Exit(p)
    /\ UNCHANGED <<jobs, results, engineLog, storeFailures>>
    /\ ProcFrame

\* processJob: the sleep is over: go processJob, return.
ProcRedispatch(p) ==
    /\ p.pc = "backoff"
    /\ procs' = Replace(p, Spawn(p.job))
    /\ UNCHANGED <<jobs, results, engineLog, storeFailures>>
    /\ ProcFrame

\* A resultRepo.Create over a schema without the foreign key on
\* ocr_results.job_id: the insert does not need the job row.
ProcSaveNoForeignKey(p) ==
    /\ p.pc = "save"
    /\ \E fail \in Fails :
          /\ storeFailures' = Count(fail)
          /\ IF fail
             THEN /\ results' = results
                  /\ procs' = Replace(p, [p EXCEPT !.pc = "savefailed"])
             ELSE /\ results' = [results EXCEPT ![p.job] = Append(@, p.call)]
                  /\ procs' = Replace(p, [p EXCEPT !.pc = "complete"])
    /\ UNCHANGED <<jobs, engineLog>>
    /\ ProcFrame

\* processJob: resultRepo.Create; the insert needs the job row (foreign key).
ProcSave(p) ==
    /\ p.pc = "save"
    /\ \E fail \in Fails :
          /\ storeFailures' = Count(fail)
          /\ IF fail \/ p.job \notin DOMAIN jobs
             THEN /\ results' = results
                  /\ procs' = Replace(p, [p EXCEPT !.pc = "savefailed"])
             ELSE /\ results' = [results EXCEPT ![p.job] = Append(@, p.call)]
                  /\ procs' = Replace(p, [p EXCEPT !.pc = "complete"])
    /\ UNCHANGED <<jobs, engineLog>>
    /\ ProcFrame

\* processJob: the result was not saved: UpdateStatus(failed, msg), return.
ProcSaveFailed(p) ==
    /\ p.pc = "savefailed"
    /\ \E fail \in Fails :
          /\ storeFailures' = Count(fail)
          /\ jobs' = WriteStatus(p.job, JobStatusFailed, SaveMsg, fail)
    /\ procs' = Exit(p)
    /\ UNCHANGED <<results, engineLog>>
    /\ ProcFrame

\* processJob: UpdateStatus(completed), return.
ProcComplete(p) ==
    /\ p.pc = "complete"
    /\ \E fail \in Fails :
          /\ storeFailures' = Count(fail)
          /\ jobs' = WriteStatus(p.job, JobStatusCompleted, NoMsg, fail)
    /\ procs' = Exit(p)
    /\ UNCHANGED <<results, engineLog>>
    /\ ProcFrame

\* The dispatches of job j between their write of processing and their last
\* status write.
Holding(p) ==
    p.pc \in {"getdoc", "docfailed", "engine", "markfailed", "incr", "requeue",
              "save", "savefailed", "complete"}

Holders(j) == {p \in Running : p.job = j /\ Holding(p)}

\* CancelJob by the owner of a job that is not terminal: GetByID, the
\* ownership check and the status check pass.
CancelGet(caller, j) ==
    /\ CancelCheck(jobs, caller, j, FALSE) = Ok
    /\ cancels' = [cancels EXCEPT ![j][caller] = @ + 1]
    /\ nCancels' = nCancels + 1
    /\ resp' = NoResp
    /\ UNCHANGED <<jobs, results, procs, deletes, engineLog, cancelOver,
                   submitted, storeFailures, nPulls, nDeletes, docs,
                   limiterVars, uploadVars>>

\* CancelJob refused: the job is not found, is another user's, or is terminal.
CancelRefused(caller, j) ==
    /\ \E fail \in Fails :
          /\ CancelCheck(jobs, caller, j, fail) # Ok
          /\ storeFailures' = Count(fail)
          /\ resp' = Replied("CancelJob", caller, j,
                             CancelJobResponse(CancelCheck(jobs, caller, j, fail)))
    /\ UNCHANGED <<jobs, results, procs, cancels, deletes, engineLog, cancelOver,
                   submitted, nPulls, nCancels, nDeletes, docs,
                   limiterVars, uploadVars>>

\* CancelJob: UpdateStatus(cancelled), and the response.
CancelWrite(caller, j) ==
    /\ cancels[j][caller] > 0
    /\ cancels' = [cancels EXCEPT ![j][caller] = @ - 1]
    /\ \E fail \in Fails :
          /\ storeFailures' = Count(fail)
          /\ jobs' = WriteStatus(j, JobStatusCancelled, NoMsg, fail)
          /\ cancelOver' =
               IF fail \/ j \notin DOMAIN jobs \/ jobs[j].status = JobStatusCancelled
               THEN cancelOver
               ELSE [cancelOver EXCEPT ![j] = [was |-> jobs[j].status,
                                               engine |-> \E p \in Holders(j) : p.pc = "engine"]]
          /\ resp' = Replied("CancelJob", caller, j,
                             CancelJobResponse(
                                 IF fail THEN ErrCancelJob("failed to update job status")
                                 ELSE IF j \notin DOMAIN jobs THEN ErrCancelJob("job not found")
                                 ELSE Ok))
    /\ UNCHANGED <<results, procs, deletes, engineLog, submitted,
                   nPulls, nCancels, nDeletes, docs,
                   limiterVars, uploadVars>>

\* DeleteJob by the owner of a terminal job: GetByID, the ownership check and
\* the status check pass.
DeleteGet(caller, j) ==
    /\ nDeletes < MaxDeletes
    /\ DeleteCheck(jobs, caller, j, FALSE) = Ok
    /\ deletes' = [deletes EXCEPT ![j][caller] = @ + 1]
    /\ nDeletes' = nDeletes + 1
    /\ resp' = NoResp
    /\ UNCHANGED <<jobs, results, procs, cancels, engineLog, cancelOver,
                   submitted, storeFailures, nPulls, nCancels, docs,
                   limiterVars, uploadVars>>

\* DeleteJob refused: the job is not found, is another user's, or is active.
DeleteRefused(caller, j) ==
    /\ \E fail \in Fails :
          /\ DeleteCheck(jobs, caller, j, fail) # Ok
          /\ storeFailures' = Count(fail)
          /\ resp' = Replied("DeleteJob", caller, j,
                             DeleteJobResponse(DeleteCheck(jobs, caller, j, fail)))
    /\ UNCHANGED <<jobs, results, procs, cancels, deletes, engineLog, cancelOver,
                   submitted, nPulls, nCancels, nDeletes, docs,
                   limiterVars, uploadVars>>

\* A DeleteJob over a schema without ON DELETE CASCADE on ocr_results.job_id,
\* whose DELETE leaves the results behind.
DeleteWriteNoCascade(caller, j) ==
    /\ deletes[j][caller] > 0
    /\ deletes' = [deletes EXCEPT ![j][caller] = @ - 1]
    /\ \E fail \in Fails :
          /\ storeFailures' = Count(fail)
          /\ jobs' = IF fail \/ j \notin DOMAIN jobs
                     THEN jobs
                     ELSE [k \in DOMAIN jobs \ {j} |-> jobs[k]]
          /\ resp' = Replied("DeleteJob", caller, j,
                             DeleteJobResponse(
                                 IF fail THEN ErrDeleteJob("database error")
                                 ELSE IF j \notin DOMAIN jobs THEN ErrDeleteJob("job not found")
                                 ELSE Ok))
    /\ UNCHANGED <<results, procs, cancels, engineLog, cancelOver, submitted,
                   nPulls, nCancels, nDeletes, docs,
                   limiterVars, uploadVars>>

\* DeleteJob: jobRepo.Delete; ON DELETE CASCADE removes the job's results.
DeleteWrite(caller, j) ==
    /\ deletes[j][caller] > 0
    /\ deletes' = [deletes EXCEPT ![j][caller] = @ - 1]
    /\ \E fail \in Fails :
          /\ storeFailures' = Count(fail)
          /\ IF fail \/ j \notin DOMAIN jobs
             THEN UNCHANGED <<jobs, results>>
             ELSE /\ jobs' = [k \in DOMAIN jobs \ {j} |-> jobs[k]]
                  /\ results' = [results EXCEPT ![j] = << >>]
          /\ resp' = Replied("DeleteJob", caller, j,
                             DeleteJobResponse(
                                 IF fail THEN ErrDeleteJob("database error")
                                 ELSE IF j \notin DOMAIN jobs THEN ErrDeleteJob("job not found")
                                 ELSE Ok))
    /\ UNCHANGED <<procs, cancels, engineLog, cancelOver, submitted,
                   nPulls, nCancels, nDeletes, docs,
                   limiterVars, uploadVars>>

\* The dispatch core.
Next ==
    \/ \E caller \in Users, d \in DocRefs : SubmitJob(caller, d)
    \/ ProcessNextJob
    \/ \E p \in Running : ProcGet(p)
    \/ \E p \in Running : ProcClaim(p)
    \/ \E p \in Running : ProcGetDoc(p)
    \/ \E p \in Running : ProcDocFailed(p)
    \/ \E p \in Running : ProcEngine(p)
    \/ \E p \in Running : ProcMarkFailed(p)
    \/ \E p \in Running : ProcIncrement(p)
    \/ \E p \in Running : ProcRequeue(p)
    \/ \E p \in Running : ProcRedispatch(p)
    \/ \E p \in Running : ProcSave(p)
    \/ \E p \in Running : ProcSaveFailed(p)
    \/ \E p \in Running : ProcComplete(p)
    \/ \E caller \in Users, j \in JobIds : nCancels < MaxCancels /\ CancelGet(caller, j)
    \/ \E caller \in Users, j \in JobIds : CancelWrite(caller, j)
    \/ \E caller \in Users, j \in JobIds : DeleteGet(caller, j)
    \/ \E caller \in Users, j \in JobIds : DeleteWrite(caller, j)

Spec == Init /\ [][Next]_vars

\* The HTTP API: every route of JobHandler and the deletion of a document,
\* with every caller, and the goroutines.
NextApi ==
    \/ \E caller \in Users, d \in DocRefs : SubmitJob(caller, d)
    \/ \E caller \in Users, d \in DocRefs : SubmitRefused(caller, d)
    \/ \E caller \in Users, j \in JobIds : GetJob(caller, j)
    \/ \E caller \in Users, j \in JobIds : GetJobResult(caller, j)
    \/ \E caller \in Users, d \in DocRefs : DeleteDocument(caller, d)
    \/ \E p \in Running : ProcGet(p)
    \/ \E p \in Running : ProcClaim(p)
    \/ \E p \in Running : ProcGetDoc(p)
    \/ \E p \in Running : ProcDocFailed(p)
    \/ \E p \in Running : ProcEngine(p)
    \/ \E p \in Running : ProcMarkFailed(p)
    \/ \E p \in Running : ProcIncrement(p)
    \/ \E p \in Running : ProcRequeue(p)
    \/ \E p \in Running : ProcRedispatch(p)
    \/ \E p \in Running : ProcSave(p)
    \/ \E p \in Running : ProcSaveFailed(p)
    \/ \E p \in Running : ProcComplete(p)
    \/ \E caller \in Users, j \in JobIds : nCancels < MaxApiCancels /\ CancelGet(caller, j)
    \/ \E caller \in Users, j \in JobIds : CancelRefused(caller, j)
    \/ \E caller \in Users, j \in JobIds : CancelWrite(caller, j)
    \/ \E caller \in Users, j \in JobIds : DeleteGet(caller, j)
    \/ \E caller \in Users, j \in JobIds : DeleteRefused(caller, j)
    \/ \E caller \in Users, j \in JobIds : DeleteWrite(caller, j)

SpecApi == Init /\ [][NextApi]_vars

----------------------------------------------------------------------------
\* Vocabulary of the properties.

HasResult(j) == Len(results[j]) > 0

\* Nothing is running or scheduled for job j: no dispatch, no sleeping retry,
\* no CancelJob or DeleteJob between its read and its write.
Quiescent(j) ==
    /\ \A p \in Running : p.job # j
    /\ \A u \in Users : cancels[j][u] = 0 /\ deletes[j][u] = 0

\* No cancel, delete or store failure has happened.
Undisturbed == nCancels = 0 /\ nDeletes = 0 /\ storeFailures = 0

\* The engine failed on the first k calls made for job j and succeeded on
\* call k + 1.
FailsThenSucceeds(j, k) ==
    /\ Len(engineLog[j]) >= k + 1
    /\ \A i \in 1..k : engineLog[j][i] = "fail"
    /\ engineLog[j][k + 1] = "ok"

\* Every dispatch of the job so far came from SubmitJob or from a retry.
LoneChain == nPulls = 0

\* The status of job j stays what it is in this step, unless the row is deleted.
StatusKept(j) == j \in DOMAIN jobs' => jobs'[j].status = jobs[j].status

\* C1: a Result row exists for a job iff the job's stored status is completed.
C1_ResultIffCompleted ==
    \A j \in DOMAIN jobs : HasResult(j) <=> jobs[j].status = JobStatusCompleted

\* C2: completed_at is set iff the status is completed, failed or cancelled.
C2_CompletedAtIffTerminal ==
    \A j \in DOMAIN jobs : jobs[j].completed_at <=> jobs[j].status \in Terminal

\* C3: retry_count never exceeds max_retries.
C3_RetryBounded ==
    \A j \in DOMAIN jobs : jobs[j].retry_count <= jobs[j].max_retries

\* C4: a job cancelled while a dispatch of it was at its engine call (after
\* its write of processing, before its last status write) keeps status
\* cancelled in every later step, whatever the engine returns.
C4_CancelledSticky ==
    [][\A j \in DOMAIN jobs :
          (jobs[j].status = JobStatusCancelled /\ cancelOver[j].engine)
              => StatusKept(j)]_vars

\* C5: when a CancelJob and a dispatch whose engine call succeeded have both
\* run to their end on a job, the status is cancelled or completed and exactly
\* one of {a Result exists, status = cancelled} holds.
C5_CancelCompleteRace ==
    \A j \in DOMAIN jobs :
        (/\ Quiescent(j)
         /\ cancelOver[j].was # "none"
         /\ engineLog[j] = <<"ok">>
         /\ storeFailures = 0)
        => /\ jobs[j].status \in {JobStatusCancelled, JobStatusCompleted}
           /\ HasResult(j) # (jobs[j].status = JobStatusCancelled)

\* C6: at most one dispatch of a job at a time has made the transition from
\* pending to processing and not yet written its outcome.
C6_ExclusiveClaim ==
    \A j \in JobIds :
        \A p, q \in Holders(j) : p = q /\ CopiesIn(p, procs) = 1

\* C7: a job cancelled while pending has status cancelled with completed_at
\* set, and no later step changes that status.
C7_CancelPendingSticky ==
    [][\A j \in DOMAIN jobs :
          (jobs[j].status = JobStatusCancelled /\ cancelOver[j].was = JobStatusPending)
              => jobs[j].completed_at /\ StatusKept(j)]_vars

\* C8: once the stored status is completed or failed, no step changes it;
\* the row can only be deleted.
C8_TerminalAbsorbing ==
    [][\A j \in DOMAIN jobs :
          jobs[j].status \in {JobStatusCompleted, JobStatusFailed}
              => StatusKept(j)]_vars

\* What C9 expects of job j after k failures and a success.
CompletedAfter(j, k) ==
    /\ j \in DOMAIN jobs
    /\ jobs[j].status = JobStatusCompleted
    /\ jobs[j].retry_count = k
    /\ jobs[j].progress_percentage = 100
    /\ results[j] = <<k + 1>>

\* C9: with no cancel, delete or store failure, when the engine failed on the
\* first k calls for a job (0 <= k <= 3) and succeeded on call k + 1, the job
\* ends completed with retry_count k, progress 100 and exactly one Result,
\* holding the payload of call k + 1.
C9_FailsThenSucceeds ==
    \A j \in JobIds : \A k \in 0..DefaultMaxRetries :
        (Quiescent(j) /\ Undisturbed /\ FailsThenSucceeds(j, k))
            => CompletedAfter(j, k)

\* C9 where SubmitJob and the retry path are the only sources of dispatches.
C9_LoneChain ==
    \A j \in JobIds : \A k \in 0..DefaultMaxRetries :
        (Quiescent(j) /\ Undisturbed /\ LoneChain /\ FailsThenSucceeds(j, k))
            => CompletedAfter(j, k)

\* C9's case is reached: two failures, then a success, and the job at rest.
C9_Reached ==
    \E j \in JobIds :
        Quiescent(j) /\ Undisturbed /\ LoneChain /\ FailsThenSucceeds(j, 2)

\* Every engine call made for job j has failed.
AlwaysFails(j) == \A i \in 1..Len(engineLog[j]) : engineLog[j][i] = "fail"

\* What C10 expects of job j at rest when the engine never succeeds.
FailedAfterRetries(j) ==
    /\ Len(engineLog[j]) = DefaultMaxRetries + 1
    /\ jobs[j].status = JobStatusFailed
    /\ jobs[j].retry_count = DefaultMaxRetries
    /\ jobs[j].error_message = OcrMsg(DefaultMaxRetries + 1)
    /\ jobs[j].completed_at
    /\ ~HasResult(j)

\* C10: with no cancel, delete or store failure, when every engine call made
\* for a job has failed and nothing is running or scheduled for it any more,
\* the engine was called exactly 4 times and the job is failed with
\* retry_count 3, the 4th failure's error_message, completed_at set and no
\* Result.
C10_AlwaysFails ==
    \A j \in DOMAIN jobs :
        (Quiescent(j) /\ Undisturbed /\ AlwaysFails(j))
            => FailedAfterRetries(j)

\* C10 where SubmitJob and the retry path are the only sources of dispatches.
C10_LoneChain ==
    \A j \in DOMAIN jobs :
        (Quiescent(j) /\ Undisturbed /\ LoneChain /\ AlwaysFails(j))
            => FailedAfterRetries(j)

\* C10's case is reached: a job at rest after engine calls that all failed.
C10_Reached ==
    \E j \in DOMAIN jobs :
        Quiescent(j) /\ Undisturbed /\ LoneChain /\ AlwaysFails(j)

\* C11: the engine is invoked at most max_retries + 1 times for a job, over
\* every interleaving of the dispatches of SubmitJob, the retry path and
\* ProcessNextJob.
C11_EngineCallsBounded ==
    \A j \in JobIds : Len(engineLog[j]) <= DefaultMaxRetries + 1

\* C12: at most one Result row exists per job in every reachable state.
C12_OneResultPerJob ==
    \A j \in JobIds : Len(results[j]) <= 1

\* The state C13 expects of a job just submitted by caller.
SubmittedJob(row, caller) ==
    /\ row.user_id = caller
    /\ row.status = JobStatusPending
    /\ row.retry_count = 0
    /\ row.max_retries = 3
    /\ row.progress_percentage = 0
    /\ row.started_at = 0
    /\ ~row.completed_at
    /\ row.error_message = NoMsg

\* The goroutine SubmitJob started for job j has not taken a step, and no
\* other dispatch or cancel has touched the job.
Fresh(j) ==
    /\ j \in DOMAIN jobs
    /\ CopiesIn(Spawn(j), procs) = 1
    /\ engineLog[j] = << >>
    /\ cancelOver[j].was = "none"
    /\ nPulls = 0

\* What SubmitJob does in a step that answers 201.
SubmitEffect ==
    \E j \in DOMAIN jobs' \ DOMAIN jobs :
        /\ DOMAIN jobs' = DOMAIN jobs \cup {j}
        /\ \A k \in DOMAIN jobs : jobs'[k] = jobs[k]
        /\ SubmittedJob(jobs'[j], resp'.caller)
        /\ resp'.out.data = <<jobs'[j]>>
        /\ procs' = procs (+) SetToBag({Spawn(j)})

\* A GetJob by the owner of a fresh job returns the job as submitted.
FreshRead ==
    (/\ resp.op = "GetJob"
     /\ Fresh(resp.ref)
     /\ resp.caller = jobs[resp.ref].user_id
     /\ storeFailures = 0)
    => /\ resp.out.status = 200
       /\ resp.out.data = <<jobs[resp.ref]>>
       /\ SubmittedJob(jobs[resp.ref], resp.caller)

\* C13: a SubmitJob by the owner of an existing, non-deleted document whose
\* store calls succeed answers 201, adds exactly one job (pending,
\* retry_count 0, max_retries 3, progress 0, started_at, completed_at and
\* error_message unset, user_id the caller), returns it with the dispatch
\* started and not waited for, and a GetJob by the caller before the dispatch
\* has taken a step returns that state.
C13_SubmitCreatesPending ==
    [][/\ (/\ resp'.op = "SubmitJob"
           /\ DocumentCheck(docs, resp'.caller, resp'.ref, FALSE) = Ok
           /\ storeFailures' = storeFailures)
          => resp'.out.status = 201
       /\ (resp'.op = "SubmitJob" /\ resp'.out.status = 201) => SubmitEffect
       /\ FreshRead']_vars

\* C13's case is reached: the owner reads the job just submitted.
C13_Reached ==
    /\ resp.op = "GetJob"
    /\ resp.out.status = 200
    /\ Fresh(resp.ref)
    /\ resp.caller = jobs[resp.ref].user_id

\* Document d does not exist, is soft-deleted, or is another user's.
BadDocument(caller, d) ==
    \/ d \notin DOMAIN docs
    \/ docs[d].deleted
    \/ docs[d].user_id # caller

\* C14: a SubmitJob for a document that does not exist, is soft-deleted or
\* belongs to another user answers with an error and no job, creates no job
\* row and starts no dispatch; the job and result tables are unchanged.
C14_SubmitRefusedNoJob ==
    [][(resp'.op = "SubmitJob" /\ BadDocument(resp'.caller, resp'.ref))
          => /\ resp'.out.status = 400
             /\ resp'.out.data = NoData
             /\ jobs' = jobs
             /\ results' = results
             /\ procs' = procs
             /\ submitted' = submitted]_vars

\* C14's case is reached: the owner submits a job for a document they have
\* deleted, while a job exists.
C14_Reached ==
    /\ resp.op = "SubmitJob"
    /\ resp.ref \in DOMAIN docs
    /\ docs[resp.ref].deleted
    /\ resp.caller = docs[resp.ref].user_id
    /\ jobs # << >>

\* A CancelJob by caller on job j makes its GetByID in this step: it is
\* admitted, or refused with a response.
CancelStarts(caller, j) ==
    \/ cancels'[j][caller] = cancels[j][caller] + 1
    \/ /\ resp'.op = "CancelJob"
       /\ resp'.ref = j
       /\ resp'.caller = caller
       /\ cancels' = cancels

\* The CancelJob that starts in this step is refused and changes nothing.
CancelIsRefused ==
    /\ resp'.op = "CancelJob"
    /\ resp'.out.status = 400
    /\ jobs' = jobs
    /\ results' = results
    /\ cancels' = cancels

\* C15, first part: a CancelJob that finds the job completed, failed or
\* cancelled is refused with the invalid-state error and changes neither the
\* job nor its Result.
C15_TerminalRefused ==
    [][\A j \in DOMAIN jobs : \A c \in Users :
          (CancelStarts(c, j) /\ jobs[j].user_id = c /\ jobs[j].status \in Terminal)
              => /\ CancelIsRefused
                 /\ storeFailures' = storeFailures
                      => resp'.out.message = ErrCannotCancel(jobs[j].status)]_vars

\* C15, second part: a CancelJob that starts after a CancelJob on the same job
\* has set it cancelled is refused and changes nothing.
C15_SecondRefused ==
    [][\A j \in DOMAIN jobs : \A c \in Users :
          (CancelStarts(c, j) /\ cancelOver[j].was # "none")
              => CancelIsRefused]_vars

\* C15: a CancelJob on a terminal job is refused and changes nothing, and of
\* two successive CancelJob calls on a job the second is refused and changes
\* nothing.
C15_CancelTerminalRefused ==
    [][\A j \in DOMAIN jobs : \A c \in Users :
          /\ (CancelStarts(c, j) /\ jobs[j].user_id = c /\ jobs[j].status \in Terminal)
                => /\ CancelIsRefused
                   /\ storeFailures' = storeFailures
                        => resp'.out.message = ErrCannotCancel(jobs[j].status)
          /\ (CancelStarts(c, j) /\ cancelOver[j].was # "none")
                => CancelIsRefused]_vars

\* The CancelJob of job j by its owner answers 200 in this step: its
\* UpdateStatus(cancelled) was applied to the row.
CancelSucceeds(j) ==
    /\ resp'.op = "CancelJob"
    /\ resp'.ref = j
    /\ resp'.out.status = 200
    /\ resp'.caller = jobs[j].user_id

\* C16: a CancelJob by the owner that succeeds on a job whose status is
\* pending or processing sets status cancelled and completed_at, and leaves
\* progress, retry_count, started_at and error_message as they were.
C16_CancelFrame ==
    [][\A j \in DOMAIN jobs :
          (/\ CancelSucceeds(j)
           /\ jobs[j].status \in {JobStatusPending, JobStatusProcessing})
              => /\ j \in DOMAIN jobs'
                 /\ jobs'[j].status = JobStatusCancelled
                 /\ jobs'[j].completed_at
                 /\ jobs'[j].progress_percentage = jobs[j].progress_percentage
                 /\ jobs'[j].retry_count = jobs[j].retry_count
                 /\ jobs'[j].started_at = jobs[j].started_at
                 /\ jobs'[j].error_message = jobs[j].error_message]_vars

\* C16 without the progress: what the cancel's UPDATE does leave alone.
C16_CancelFrameButProgress ==
    [][\A j \in DOMAIN jobs :
          (/\ CancelSucceeds(j)
           /\ jobs[j].status \in {JobStatusPending, JobStatusProcessing})
              => /\ j \in DOMAIN jobs'
                 /\ jobs'[j].status = JobStatusCancelled
                 /\ jobs'[j].completed_at
                 /\ jobs'[j].progress_percentage = 100
                 /\ jobs'[j].retry_count = jobs[j].retry_count
                 /\ jobs'[j].started_at = jobs[j].started_at
                 /\ jobs'[j].error_message = jobs[j].error_message]_vars

\* A DeleteJob by caller on job j makes its GetByID in this step: it is
\* admitted, or refused with a response.
DeleteStarts(caller, j) ==
    \/ deletes'[j][caller] = deletes[j][caller] + 1
    \/ /\ resp'.op = "DeleteJob"
       /\ resp'.ref = j
       /\ resp'.caller = caller
       /\ deletes' = deletes

\* A dispatch of job j, or its scheduled re-dispatch, is outstanding.
Dispatching(j) == \E p \in Running : p.job = j

\* C17, first part: a DeleteJob that finds the job pending or processing is
\* refused with the invalid-state error and changes neither the job nor a
\* Result.
C17_ActiveRefused ==
    [][\A j \in DOMAIN jobs : \A c \in Users :
          (/\ DeleteStarts(c, j)
           /\ jobs[j].user_id = c
           /\ jobs[j].status \in {JobStatusPending, JobStatusProcessing})
              => /\ resp'.op = "DeleteJob"
                 /\ resp'.out.status = 400
                 /\ storeFailures' = storeFailures
                      => resp'.out.message = ErrCannotDelete
                 /\ jobs' = jobs
                 /\ results' = results
                 /\ deletes' = deletes]_vars

\* C17: a DeleteJob on a pending or processing job is refused and changes
\* nothing, and a job row is only removed while its status is completed,
\* failed or cancelled and no dispatch or scheduled re-dispatch of it is
\* outstanding.
C17_DeleteOnlyAtRest ==
    [][\A j \in DOMAIN jobs : \A c \in Users :
          /\ (/\ DeleteStarts(c, j)
              /\ jobs[j].user_id = c
              /\ jobs[j].status \in {JobStatusPending, JobStatusProcessing})
                => /\ resp'.op = "DeleteJob"
                   /\ resp'.out.status = 400
                   /\ storeFailures' = storeFailures
                        => resp'.out.message = ErrCannotDelete
                   /\ jobs' = jobs
                   /\ results' = results
                   /\ deletes' = deletes
          /\ j \notin DOMAIN jobs'
                => /\ jobs[j].status \in Terminal
                   /\ ~Dispatching(j)]_vars

\* The ids of the jobs that were created and are no longer in the table.
Deleted == (1..submitted) \ DOMAIN jobs

\* Nothing of a deleted job is left to read: no Result references it, it is
\* in no ListJobs or GetPendingJobs result, and a GetJob or GetJobResult for
\* it answers not-found without data.
DeletedIsGone ==
    /\ \A j \in Deleted :
          /\ results[j] = << >>
          /\ j \notin Pending
          /\ \A u \in Users : j \notin ListJobs(u)
    /\ (resp.op \in {"GetJob", "GetJobResult"} /\ resp.ref \in Deleted)
          => resp.out.status = 404 /\ resp.out.data = NoData

JobEndpoints == {"GetJob", "GetJobResult", "CancelJob", "DeleteJob"}

\* C19: a GetJob, CancelJob, DeleteJob or GetJobResult by a caller who is not
\* the job's user_id answers with an error and no data, and leaves the job
\* table, the result table and the calls in flight as they were, whatever
\* the job's status.
C19_UserIsolation ==
    [][\A j \in DOMAIN jobs :
          (/\ resp'.op \in JobEndpoints
           /\ resp'.ref = j
           /\ resp'.caller # jobs[j].user_id)
              => /\ resp'.out.status \in {400, 404}
                 /\ resp'.out.data = NoData
                 /\ jobs' = jobs
                 /\ results' = results
                 /\ cancels' = cancels
                 /\ deletes' = deletes]_vars

\* In no state is a call of another user between its checks and its write.
C19_NoForeignCallInFlight ==
    \A j \in DOMAIN jobs : \A u \in Users :
        u # jobs[j].user_id => cancels[j][u] = 0 /\ deletes[j][u] = 0

\* C19's case is reached: another user asked for the Result of a completed
\* job and was refused.
C19_Reached ==
    /\ resp.op = "GetJobResult"
    /\ resp.ref \in DOMAIN jobs
    /\ resp.caller # jobs[resp.ref].user_id
    /\ jobs[resp.ref].status = JobStatusCompleted
    /\ HasResult(resp.ref)

\* The table without row k: the run in which the resource does not exist.
Without(table, k) == [x \in DOMAIN table \ {k} |-> table[x]]

\* The response of a job endpoint to a call its checks refuse, as the
\* handler derives it from the tables.
Refusal(op, table, caller, j) ==
    CASE op = "GetJob" -> GetJobResponse(JobCheck(table, caller, j, FALSE), NoData)
      [] op = "GetJobResult" -> GetJobResultResponse(JobCheck(table, caller, j, FALSE), NoData)
      [] op = "CancelJob" -> CancelJobResponse(CancelCheck(table, caller, j, FALSE))
      [] op = "DeleteJob" -> DeleteJobResponse(DeleteCheck(table, caller, j, FALSE))

\* The response of SubmitJob to a call its document check refuses.
SubmitRefusal(table, caller, d) ==
    SubmitJobResponse(DocumentCheck(table, caller, d, FALSE), NoData)

\* The endpoint answers caller the same whether job j exists or not.
SameWithoutJob(op, caller, j) ==
    Refusal(op, jobs, caller, j) = Refusal(op, Without(jobs, j), caller, j)

\* SubmitJob answers caller the same whether document d exists or not.
SameWithoutDocument(caller, d) ==
    SubmitRefusal(docs, caller, d) = SubmitRefusal(Without(docs, d), caller, d)

\* C20: for GetJob, GetJobResult, CancelJob, DeleteJob and SubmitJob, the
\* response (status code, error code, message) to a caller when the job or
\* document named exists and belongs to another user is the response to the
\* same call when it does not exist.
C20_NoExistenceDisclosure ==
    \A j \in DOMAIN jobs : \A c \in Users :
        c # jobs[j].user_id
            => /\ \A op \in JobEndpoints : SameWithoutJob(op, c, j)
               /\ SameWithoutDocument(c, jobs[j].document_id)

\* C20 for the two reads: GetJob and GetJobResult answer the same 404.
C20_ReadsDoNotDisclose ==
    \A j \in DOMAIN jobs : \A c \in Users :
        c # jobs[j].user_id
            => SameWithoutJob("GetJob", c, j) /\ SameWithoutJob("GetJobResult", c, j)

----------------------------------------------------------------------------
\* The list queries, on tables of several jobs (SpecList).

Min(a, b) == IF a < b THEN a ELSE b

\* The elements of a sequence.
Range(s) == {s[i] : i \in 1..Len(s)}

\* The orders in which ORDER BY priority DESC, created_at ASC can return the
\* jobs of S (rows that tie come in any order).
RECURSIVE PendingOrders(_)
PendingOrders(S) ==
    IF S = {}
    THEN {<< >>}
    ELSE UNION {{<<j>> \o t : t \in PendingOrders(S \ {j})} :
                   j \in {a \in S : \A b \in S : Before(a, b)}}

\* The first n elements of s, all of s when it is shorter (LIMIT n).
Limit(s, n) == SubSeq(s, 1, Min(n, Len(s)))

\* JobRepository.GetPendingJobs(limit): the results the query can return.
GetPendingJobs(limit) == {Limit(s, limit) : s \in PendingOrders(Pending)}

\* JobHandler.ListJobs, JobService.ListJobs: a page below 1 is 1.
ClampPage(page) == IF page < 1 THEN 1 ELSE page

\* A per_page without the upper limit.
ClampPerPageNoMax(perPage) == IF perPage < 1 THEN 20 ELSE perPage

\* JobHandler.ListJobs, JobService.ListJobs: a per_page outside 1..100 is 20.
ClampPerPage(perPage) == IF perPage < 1 \/ perPage > 100 THEN 20 ELSE perPage

\* The orders in which ORDER BY created_at DESC can return the jobs of S.
RECURSIVE NewestFirst(_)
NewestFirst(S) ==
    IF S = {}
    THEN {<< >>}
    ELSE UNION {{<<j>> \o t : t \in NewestFirst(S \ {j})} :
                   j \in {a \in S : \A b \in S : jobs[a].created_at >= jobs[b].created_at}}

\* LIMIT n OFFSET k.
LimitOffset(s, n, k) ==
    IF k >= Len(s) THEN << >> ELSE SubSeq(s, k + 1, Min(k + n, Len(s)))

\* JobRepository.GetByUserID(user, page, perPage): the pages the query can
\* return (the ids of the rows), with the total.
GetByUserID(caller, page, perPage) ==
    {[items |-> LimitOffset(s, perPage, (page - 1) * perPage),
      total |-> Cardinality(ListJobs(caller))] : s \in NewestFirst(ListJobs(caller))}

\* JobService.ListJobs: totalPages := (total + perPage - 1) / perPage.
TotalPages(total, perPage) == (total + perPage - 1) \div perPage

\* JobService.ListJobs: models.Pagination.
Pagination(page, perPage, total) ==
    [page |-> page,
     per_page |-> perPage,
     total |-> total,
     total_pages |-> TotalPages(total, perPage),
     has_next |-> page < TotalPages(total, perPage),
     has_prev |-> page > 1]

\* The values of the query parameters the list requests carry.
Pages == {0, 2, 3}
PerPages == {0, 2, 101}
StatusFilters == {"", JobStatusCompleted}
Limits == 0..MaxListed

\* The rows of the tables listed: owner, priority, created_at, status.
ListPriorities == {5, 9}
ListTimes == 0..2
ListStatuses == {JobStatusPending, JobStatusCompleted}

\* The row of a job created at t that has reached status.
RowAt(owner, prio, t, status) ==
    LET d == IF owner = "alice" THEN 1 ELSE 2
        created == NewJob(owner, d, "document", "base", prio, t)
        claimed == UpdateStatus(created, JobStatusProcessing, NoMsg, Now(created)) IN
    IF status = JobStatusPending
    THEN created
    ELSE UpdateStatus(claimed, status, NoMsg, Now(claimed))

ListRows ==
    {RowAt(owner, prio, t, status) :
        owner \in Users, prio \in ListPriorities, t \in ListTimes, status \in ListStatuses}

\* A table of up to MaxListed jobs at rest.
InitList ==
    /\ \E n \in 0..MaxListed : jobs \in [1..n -> ListRows]
    /\ results = [j \in JobIds |-> << >>]
    /\ procs = EmptyBag
    /\ cancels = [j \in JobIds |-> [u \in Users |-> 0]]
    /\ deletes = [j \in JobIds |-> [u \in Users |-> 0]]
    /\ engineLog = [j \in JobIds |-> << >>]
    /\ cancelOver = [j \in JobIds |-> [was |-> "none", engine |-> FALSE]]
    /\ submitted = Cardinality(DOMAIN jobs)
    /\ storeFailures = 0
    /\ nPulls = 0
    /\ nCancels = 0
    /\ nDeletes = 0
    /\ docs = (1 :> Document("alice", "a", 0)) @@ (2 :> Document("bob", "b", 1))
    /\ resp = NoResp
    /\ visitors = << >>
    /\ clock = 0
    /\ admitted = [ip \in IPs |-> << >>]
    /\ nRequests = 0
    /\ uploads = << >>
    /\ files = {0, 1}

\* JobService.GetPendingJobs(limit).  A query leaves the table as it is, so
\* one query per table shows every result.
PendingQuery(limit) ==
    /\ resp = NoResp
    /\ \E items \in GetPendingJobs(limit) :
          resp' = Replied("GetPendingJobs", "", [limit |-> limit],
                          Response(0, "", << >>, items))
    /\ UNCHANGED <<jobs, results, procs, cancels, deletes, engineLog, cancelOver,
                   submitted, storeFailures, nPulls, nCancels, nDeletes, docs,
                   limiterVars, uploadVars>>

\* JobHandler.ListJobs: the query parameters (the status is bound and not
\* passed on), the defaults, JobService.ListJobs, the paginated response.
ListQuery(caller, page, perPage, status) ==
    /\ resp = NoResp
    /\ \E got \in GetByUserID(caller, ClampPage(page), ClampPerPage(perPage)) :
          resp' = Replied("ListJobs", caller,
                          [page |-> page, per_page |-> perPage, status |-> status],
                          Response(200, "", <<"Jobs retrieved successfully">>,
                                   [items |-> got.items,
                                    pagination |-> Pagination(ClampPage(page),
                                                              ClampPerPage(perPage),
                                                              got.total)]))
    /\ UNCHANGED <<jobs, results, procs, cancels, deletes, engineLog, cancelOver,
                   submitted, storeFailures, nPulls, nCancels, nDeletes, docs,
                   limiterVars, uploadVars>>

NextList ==
    \/ \E limit \in Limits : PendingQuery(limit)
    \/ \E caller \in Users, page \in Pages, perPage \in PerPages,
          status \in StatusFilters : ListQuery(caller, page, perPage, status)

SpecList == InitList /\ [][NextList]_vars

\* Row a comes no later than row b under priority descending, then
\* created_at ascending.
NoLater(a, b) ==
    \/ jobs[a].priority > jobs[b].priority
    \/ jobs[a].priority = jobs[b].priority /\ jobs[a].created_at <= jobs[b].created_at

\* items is the first n of the pending jobs in that order.
FirstOfPending(items, n) ==
    /\ Len(items) = Min(n, Cardinality(Pending))
    /\ \A i \in 1..Len(items) : items[i] \in DOMAIN jobs
                                /\ jobs[items[i]].status = JobStatusPending
    /\ \A i, k \in 1..Len(items) : i < k => items[i] # items[k] /\ NoLater(items[i], items[k])
    /\ \A j \in Pending \ Range(items) : \A i \in 1..Len(items) : NoLater(items[i], j)

\* The table of the example: A (priority 5, t = 1), B (priority 9, t = 2),
\* C (priority 5, t = 0) as jobs 1, 2, 3, all pending.
ExampleABC ==
    /\ DOMAIN jobs = {1, 2, 3}
    /\ \A j \in DOMAIN jobs : jobs[j].status = JobStatusPending
    /\ jobs[1].priority = 5 /\ jobs[1].created_at = 1
    /\ jobs[2].priority = 9 /\ jobs[2].created_at = 2
    /\ jobs[3].priority = 5 /\ jobs[3].created_at = 0

\* C21: GetPendingJobs(limit) returns exactly the first min(limit, n) of the
\* pending jobs sorted by priority descending, then created_at ascending, and
\* no job with another status; for A(5, t=1), B(9, t=2), C(5, t=0) the order
\* is [B, C, A].
C21_PendingOrder ==
    resp.op = "GetPendingJobs"
        => /\ FirstOfPending(resp.out.data, resp.ref.limit)
           /\ (ExampleABC /\ resp.ref.limit = 3) => resp.out.data = <<2, 3, 1>>

\* C21's case is reached: the three jobs of the example were queried.
C21_Reached ==
    resp.op = "GetPendingJobs" /\ ExampleABC /\ resp.ref.limit = 3

\* C22: a ListJobs request of user U with a status filter returns only jobs
\* owned by U whose status is the filter, at most a page of them, and reports
\* as total the number of U's jobs with that status.
C22_StatusFilter ==
    (resp.op = "ListJobs" /\ resp.ref.status # "")
        => LET items == resp.out.data.items
               wanted == {j \in DOMAIN jobs : /\ jobs[j].user_id = resp.caller
                                              /\ jobs[j].status = resp.ref.status} IN
           /\ Range(items) \subseteq wanted
           /\ Len(items) <= resp.out.data.pagination.per_page
           /\ resp.out.data.pagination.total = Cardinality(wanted)

\* C22 without the filter: the items are jobs of the caller, at most a page.
C22_OwnJobsOnly ==
    resp.op = "ListJobs"
        => /\ \A j \in Range(resp.out.data.items) : jobs[j].user_id = resp.caller
           /\ Len(resp.out.data.items) <= resp.out.data.pagination.per_page

\* The jobs of owner created after job j, and those created no earlier.
Newer(owner, j) ==
    {k \in DOMAIN jobs : jobs[k].user_id = owner /\ jobs[k].created_at > jobs[j].created_at}

NoOlder(owner, j) ==
    {k \in DOMAIN jobs : jobs[k].user_id = owner /\ jobs[k].created_at >= jobs[j].created_at}

\* items are positions off .. off + n - 1 (from 0) of owner's jobs ordered by
\* created_at descending, n a full page or what is left.
PageOf(items, owner, off, perPage) ==
    LET total == Cardinality({k \in DOMAIN jobs : jobs[k].user_id = owner}) IN
    /\ Len(items) = IF off >= total THEN 0 ELSE Min(perPage, total - off)
    /\ \A i \in 1..Len(items) :
          /\ items[i] \in DOMAIN jobs
          /\ jobs[items[i]].user_id = owner
          /\ Cardinality(Newer(owner, items[i])) <= off + i - 1
          /\ Cardinality(NoOlder(owner, items[i])) >= off + i
    /\ \A i, k \in 1..Len(items) :
          i < k => /\ items[i] # items[k]
                   /\ jobs[items[i]].created_at >= jobs[items[k]].created_at

\* C23: ListJobs(user, page, perPage) treats a page below 1 as 1 and a perPage
\* outside 1..100 as 20, returns exactly positions (page-1)*perPage ..
\* page*perPage-1 of the user's own jobs by created_at descending and no job
\* of another user, with total_pages = ceil(total/perPage),
\* has_next = (page < total_pages) and has_prev = (page > 1).
C23_ListPage ==
    resp.op = "ListJobs"
        => LET page == IF resp.ref.page < 1 THEN 1 ELSE resp.ref.page
               perPage == IF resp.ref.per_page \in 1..100 THEN resp.ref.per_page ELSE 20
               pg == resp.out.data.pagination
               total == Cardinality({k \in DOMAIN jobs : jobs[k].user_id = resp.caller}) IN
           /\ pg.page = page
           /\ pg.per_page = perPage
           /\ pg.total = total
           /\ pg.total_pages * perPage >= total
           /\ (pg.total_pages - 1) * perPage < total
           /\ pg.has_next = (page < pg.total_pages)
           /\ pg.has_prev = (page > 1)
           /\ PageOf(resp.out.data.items, resp.caller, (page - 1) * perPage, perPage)

\* C23's case is reached: the second page of two, of three jobs of the
\* caller of which two were created at the same time.
C23_Reached ==
    /\ resp.op = "ListJobs"
    /\ resp.ref.page = 2
    /\ resp.ref.per_page = 2
    /\ Len(resp.out.data.items) = 1
    /\ resp.out.data.pagination.total = 3
    /\ \E j, k \in DOMAIN jobs : j # k /\ jobs[j].created_at = jobs[k].created_at

\* C23's clamping is reached: a per_page above 100 on a table with a job of
\* another user.
C23_ClampReached ==
    /\ resp.op = "ListJobs"
    /\ resp.ref.per_page > 100
    /\ resp.ref.page < 1
    /\ \E j \in DOMAIN jobs : jobs[j].user_id # resp.caller

\* C24: started_at is written once per job, on its first transition to
\* processing; a later transition to processing (the re-dispatch of a retry)
\* leaves it as the first dispatch set it.
C24_StartedAtOnce ==
    [][\A j \in DOMAIN jobs :
          (jobs[j].started_at # 0 /\ j \in DOMAIN jobs')
              => jobs'[j].started_at = jobs[j].started_at]_vars

\* The dispatch p of a job still in the table takes its step after a failed
\* resultRepo.Create, and the UPDATE of that step succeeds.
SaveFailedStep(p) ==
    /\ p.pc = "savefailed"
    /\ procs' = Exit(p)
    /\ p.job \in DOMAIN jobs
    /\ storeFailures' = storeFailures

\* What the step after a failed resultRepo.Create does to the job of p.
SaveFailedEffect(p) ==
    /\ jobs'[p.job].status = JobStatusFailed
    /\ jobs'[p.job].error_message = SaveMsg
    /\ jobs'[p.job].completed_at
    /\ jobs'[p.job].retry_count = jobs[p.job].retry_count
    /\ p.call \notin Range(results'[p.job])
    /\ engineLog' = engineLog
    /\ \A q \in BagToSet(procs') : q.job # p.job

\* C25: when the engine call succeeded and creating the Result failed, the
\* job goes from processing to failed with the error_message of the write
\* failure and completed_at set, no Result of the call is stored,
\* retry_count is not incremented, and no dispatch of the job is left to
\* call the engine again, whatever retry_count was.
C25_SaveFailure ==
    [][\A p \in Running :
          SaveFailedStep(p)
              => /\ jobs[p.job].status = JobStatusProcessing
                 /\ SaveFailedEffect(p)]_vars

\* C25 on a job no CancelJob has been admitted for.
C25_NoCancel ==
    [][\A p \in Running :
          (SaveFailedStep(p) /\ nCancels = 0)
              => /\ jobs[p.job].status = JobStatusProcessing
                 /\ SaveFailedEffect(p)]_vars

\* C25 whatever status the step overwrites.
C25_Effect ==
    [][\A p \in Running : SaveFailedStep(p) => SaveFailedEffect(p)]_vars

\* C26: in every reachable state a job whose status is failed has a
\* non-empty error_message; the status failed is only written by a step of
\* processJob, with the error text in the same write.
C26_FailedHasMessage ==
    [][\A j \in DOMAIN jobs' :
          jobs'[j].status = JobStatusFailed
              => /\ jobs'[j].error_message # NoMsg
                 /\ (j \in DOMAIN jobs /\ jobs[j].status # JobStatusFailed)
                       => \E p \in Running :
                             /\ p.job = j
                             /\ p.pc \in {"docfailed", "markfailed", "savefailed"}
                             /\ procs' # procs]_vars

\* C26's case is reached: a job failed on the result write.
C26_Reached ==
    \E j \in DOMAIN jobs :
        /\ jobs[j].status = JobStatusFailed
        /\ jobs[j].error_message = SaveMsg

\* ---- The rate limiter of the auth group ----

\* An allow that takes a token without looking at how many are left.
AllowUnchecked(table, ip, now) ==
    IF ip \notin DOMAIN table
    THEN [visitor |-> [tokens |-> AuthRate - 1, lastSeen |-> now, lastRefill |-> now],
          ok |-> TRUE]
    ELSE LET v == table[ip]
             refilled == IF now - v.lastRefill >= AuthWindow
                         THEN [v EXCEPT !.tokens = AuthRate, !.lastRefill = now]
                         ELSE v
         IN  [visitor |-> [refilled EXCEPT !.lastSeen = now, !.tokens = @ - 1],
              ok |-> TRUE]

\* RateLimiter.allow(ip) at time now, under the limiter's mutex: the
\* visitor it stores and its answer.
Allow(table, ip, now) ==
    IF ip \notin DOMAIN table
    THEN [visitor |-> [tokens |-> AuthRate - 1, lastSeen |-> now, lastRefill |-> now],
          ok |-> TRUE]
    ELSE LET v == table[ip]
             refilled == IF now - v.lastRefill >= AuthWindow
                         THEN [v EXCEPT !.tokens = AuthRate, !.lastRefill = now]
                         ELSE v
             seen == [refilled EXCEPT !.lastSeen = now]
         IN  IF seen.tokens > 0
             THEN [visitor |-> [seen EXCEPT !.tokens = @ - 1], ok |-> TRUE]
             ELSE [visitor |-> seen, ok |-> FALSE]

\* RateLimit: 429 when allow says no, else c.Next() (the auth handler answers).
RateLimitResponse(ok) ==
    IF ok
    THEN Response(0, "", << >>, NoData)
    ELSE Response(429, "RATE_001", <<"Too many requests. Please try again later.">>, NoData)

\* The times of t that lie in the window that ends at now.
InWindow(t, now) == SelectSeq(t, LAMBDA x : x > now - AuthWindow)

\* A request from ip reaches the RateLimit middleware.
RateLimit(ip) ==
    /\ nRequests < MaxRequests
    /\ nRequests' = nRequests + 1
    /\ LET a == Allow(visitors, ip, clock) IN
          /\ visitors' = [x \in DOMAIN visitors \cup {ip} |->
                             IF x = ip THEN a.visitor ELSE visitors[x]]
          /\ admitted' = IF a.ok THEN [admitted EXCEPT ![ip] = Append(@, clock)]
                         ELSE admitted
          /\ resp' = Replied("RateLimit", ip, clock, RateLimitResponse(a.ok))
    /\ UNCHANGED <<jobs, results, procs, cancels, deletes, engineLog, cancelOver,
                   submitted, storeFailures, nPulls, nCancels, nDeletes, docs,
                   clock, uploadVars>>

\* Time passes: one tick, or a whole period of the cleanup ticker.
Advance(d) ==
    /\ clock + d <= MaxClock
    /\ d = 1 => clock % CleanupPeriod < MaxFineTicks
    /\ clock' = clock + d
    /\ admitted' = [ip \in IPs |-> InWindow(admitted[ip], clock + d)]
    /\ resp' = NoResp
    /\ UNCHANGED <<jobs, results, procs, cancels, deletes, engineLog, cancelOver,
                   submitted, storeFailures, nPulls, nCancels, nDeletes, docs,
                   visitors, nRequests, uploadVars>>

\* The visitors a cleanup at time now removes.
Stale(now) == {ip \in DOMAIN visitors : now - visitors[ip].lastSeen > CleanupAge}

\* cleanupVisitors, on a tick of its ticker that finds a visitor to remove.
CleanupVisitors ==
    /\ clock > 0
    /\ clock % CleanupPeriod = 0
    /\ Stale(clock) # {}
    /\ visitors' = [ip \in DOMAIN visitors \ Stale(clock) |-> visitors[ip]]
    /\ resp' = NoResp
    /\ UNCHANGED <<jobs, results, procs, cancels, deletes, engineLog, cancelOver,
                   submitted, storeFailures, nPulls, nCancels, nDeletes, docs,
                   clock, admitted, nRequests, uploadVars>>

\* The auth group's limiter under requests from IPs.
NextLimit ==
    \/ \E ip \in IPs : RateLimit(ip)
    \/ \E d \in {1, CleanupPeriod} : Advance(d)
    \/ CleanupVisitors

SpecLimit == Init /\ [][NextLimit]_vars

\* C27: for every client IP, in any interval of length window the limiter
\* lets through at most rate requests from that IP (the intervals
\* (now - window, now] at every time now).
C27_AtMostRatePerWindow ==
    \A ip \in IPs : Len(admitted[ip]) <= AuthRate

\* What the limiter does keep: between two refills of a visitor's bucket
\* at most rate requests pass, so fewer than twice the rate pass in any
\* window.
C27_AtMostRatePerRefill ==
    \A ip \in IPs :
        /\ ip \in DOMAIN visitors => visitors[ip].tokens \in 0..AuthRate
        /\ Len(admitted[ip]) < 2 * AuthRate
        /\ Len(SelectSeq(admitted[ip], LAMBDA t : ip \in DOMAIN visitors
                                                  /\ t >= visitors[ip].lastRefill))
              <= AuthRate

\* ---- Upload ----

\* DocumentRepository.GetByHash: the rows WHERE file_hash = hash AND
\* user_id = owner AND deleted_at IS NULL, of which LIMIT 1 returns one.
GetByHash(table, hash, owner) ==
    {d \in DOMAIN table : /\ table[d].file_hash = hash
                          /\ table[d].user_id = owner
                          /\ ~table[d].deleted}

\* Upload's early returns: the form, the file, its size, its type, SaveFile.
UploadRefusals ==
    {Response(400, "VAL_003", <<"File too large or invalid multipart form">>, NoData),
     Response(400, "VAL_004", <<"No file uploaded">>, NoData),
     Response(400, "VAL_005", <<"File size exceeds maximum allowed size">>, NoData),
     Response(400, "VAL_006", <<"File type not allowed">>, NoData),
     Response(500, "SYS_002", <<"Failed to save file">>, NoData)}

\* Upload's answer when GetByHash found a record.
UploadDuplicateResponse(d) ==
    Response(200, "", <<"File already exists (duplicate detected)">>, <<d>>)

\* Upload's answer to documentRepo.Create.
UploadCreateResponse(fail, d) ==
    IF fail
    THEN Response(500, "SYS_003", <<"Failed to create document record">>, NoData)
    ELSE Response(201, "", <<"File uploaded successfully">>, <<d>>)

\* An Upload request past SaveFile, at position pc.
UploadAt(caller, hash, path, pc, found) ==
    [caller |-> caller, hash |-> hash, path |-> path, pc |-> pc, found |-> found]

\* Upload returns before a file is stored.
UploadRefused(caller) ==
    /\ \E out \in UploadRefusals : resp' = Replied("Upload", caller, 0, out)
    /\ UNCHANGED <<jobs, results, procs, cancels, deletes, engineLog, cancelOver,
                   submitted, storeFailures, nPulls, nCancels, nDeletes, docs,
                   limiterVars, uploadVars>>

\* Upload: storage.SaveFile writes the content under a fresh name.
UploadSave(caller, hash) ==
    /\ Len(uploads) < MaxUploads
    /\ LET path == Len(uploads) + 1 IN
          /\ files' = files \cup {path}
          /\ uploads' = Append(uploads, UploadAt(caller, hash, path, "lookup", 0))
    /\ resp' = NoResp
    /\ UNCHANGED <<jobs, results, procs, cancels, deletes, engineLog, cancelOver,
                   submitted, storeFailures, nPulls, nCancels, nDeletes, docs,
                   limiterVars>>

\* Upload: documentRepo.GetByHash; a record found makes the upload a
\* duplicate, no record or an error of the query leads on to Create.
UploadLookup(i) ==
    /\ uploads[i].pc = "lookup"
    /\ \E fail \in Fails :
          LET u == uploads[i]
              rows == GetByHash(docs, u.hash, u.caller) IN
          /\ storeFailures' = Count(fail)
          /\ IF fail \/ rows = {}
             THEN uploads' = [uploads EXCEPT ![i].pc = "create"]
             ELSE \E d \in rows :
                     uploads' = [uploads EXCEPT ![i].pc = "duplicate", ![i].found = d]
    /\ resp' = NoResp
    /\ UNCHANGED <<jobs, results, procs, cancels, deletes, engineLog, cancelOver,
                   submitted, nPulls, nCancels, nDeletes, docs,
                   limiterVars, files>>

\* Upload: the duplicate's file is deleted and the existing record returned.
UploadDuplicate(i) ==
    /\ uploads[i].pc = "duplicate"
    /\ files' = files \ {uploads[i].path}
    /\ uploads' = [uploads EXCEPT ![i].pc = "done"]
    /\ resp' = Replied("Upload", uploads[i].caller, uploads[i].found,
                       UploadDuplicateResponse(uploads[i].found))
    /\ UNCHANGED <<jobs, results, procs, cancels, deletes, engineLog, cancelOver,
                   submitted, storeFailures, nPulls, nCancels, nDeletes, docs,
                   limiterVars>>

\* Upload: documentRepo.Create under a fresh id; on its error the file is
\* deleted.
UploadCreate(i) ==
    /\ uploads[i].pc = "create"
    /\ \E fail \in Fails :
          LET u == uploads[i]
              d == Cardinality(DOMAIN docs) + 1 IN
          /\ storeFailures' = Count(fail)
          /\ docs' = IF fail THEN docs
                     ELSE docs @@ (d :> Document(u.caller, u.hash, u.path))
          /\ files' = IF fail THEN files \ {u.path} ELSE files
          /\ uploads' = [uploads EXCEPT ![i].pc = "done",
                                        ![i].found = IF fail THEN 0 ELSE d]
          /\ resp' = Replied("Upload", u.caller, IF fail THEN 0 ELSE d,
                             UploadCreateResponse(fail, d))
    /\ UNCHANGED <<jobs, results, procs, cancels, deletes, engineLog, cancelOver,
                   submitted, nPulls, nCancels, nDeletes, limiterVars>>

\* The document endpoints that write: Upload and Delete, by every caller.
NextUpload ==
    \/ \E caller \in Users : UploadRefused(caller)
    \/ \E caller \in Users, hash \in Hashes : UploadSave(caller, hash)
    \/ \E i \in DOMAIN uploads : UploadLookup(i)
    \/ \E i \in DOMAIN uploads : UploadDuplicate(i)
    \/ \E i \in DOMAIN uploads : UploadCreate(i)
    \/ \E caller \in Users, d \in DocRefs : DeleteDocument(caller, d)

SpecUpload == Init /\ [][NextUpload]_vars

\* C28: for each user, at most one non-deleted document record exists per
\* file content hash, under any interleaving of that user's Upload requests.
C28_OneRecordPerHash ==
    \A u \in Users, h \in Hashes : Cardinality(GetByHash(docs, h, u)) <= 1

\* C28 while every store call has succeeded.
C28_OneRecordPerHashNoFailure ==
    storeFailures = 0 => C28_OneRecordPerHash

\* The dispatches of job j that are between the failed write of an engine
\* failure and the pending write of its retry.
Retrying(j) ==
    {p \in Running : p.job = j /\ p.pc \in {"incr", "requeue"}}

\* C29: on an engine failure with retry_count < max_retries the job goes
\* from processing directly to pending: while a dispatch is in its retry
\* handling the job is never observable with status failed.
C29_NoFailedDuringRetry ==
    \A j \in DOMAIN jobs :
        Retrying(j) # {} => jobs[j].status # JobStatusFailed

\* C29's consequence for DeleteJob: no DeleteJob passes its status check
\* while a dispatch of the job is in its retry handling.
C29_NoDeleteDuringRetry ==
    [][\A j \in DOMAIN jobs, u \in Users :
          Retrying(j) # {} => deletes'[j][u] <= deletes[j][u]]_vars

\* C29's consequence for CancelJob: no CancelJob is refused while a dispatch
\* of the job is in its retry handling.
C29_NoCancelRefusedDuringRetry ==
    [][\A j \in DOMAIN jobs :
          (Retrying(j) # {} /\ resp' # NoResp /\ resp'.op = "CancelJob"
              /\ resp'.caller = jobs[j].user_id /\ resp'.ref = j)
              => resp'.out.status = 200]_vars

\* The dispatch p takes a step.
Steps(p) == CopiesIn(p, procs') < CopiesIn(p, procs)

\* The dispatch p is at its start and will find its job missing or in a
\* status other than pending.
Skips(p) ==
    /\ p.pc = "start"
    /\ p.job \in DOMAIN jobs => jobs[p.job].status # JobStatusPending

\* C30: a processJob invocation that finds the job missing or in a status
\* other than pending writes nothing to the job and result stores, does not
\* call the engine and schedules no re-dispatch: it only ends.
C30_SkipIsNoOp ==
    [][\A p \in Running :
          (Skips(p) /\ Steps(p))
              => /\ jobs' = jobs
                 /\ results' = results
                 /\ engineLog' = engineLog
                 /\ procs' = Exit(p)]_vars

\* C30's case is reached: a dispatch starts on a job that a CancelJob has
\* cancelled or a DeleteJob has removed.
C30_Reached ==
    \E p \in Running :
        /\ Skips(p)
        /\ p.job \in DOMAIN jobs => jobs[p.job].status = JobStatusCancelled

\* C31: in every reachable state every job has 0 <= progress <= 100;
\* progress is 0 while no terminal write has reached the job, every
\* completed job has progress 100 and every failed job has progress 0.
C31_Progress ==
    \A j \in DOMAIN jobs :
        /\ jobs[j].progress_percentage \in 0..100
        /\ ~jobs[j].completed_at => jobs[j].progress_percentage = 0
        /\ jobs[j].status = JobStatusCompleted => jobs[j].progress_percentage = 100
        /\ jobs[j].status = JobStatusFailed => jobs[j].progress_percentage = 0

\* C31's cases are reached: a job completed after a failed attempt
\* (progress 0 at creation, 0 at the failed write, 100 at completion).
C31_Reached ==
    \E j \in DOMAIN jobs :
        /\ jobs[j].status = JobStatusCompleted
        /\ jobs[j].retry_count > 0
        /\ jobs[j].progress_percentage = 100

\* ---- The writes of JobRepository, in any order ----

\* The job ids the repository is called with (the second may not exist).
RepoRefs == 1..MaxRepoJobs

\* The submissions the jobs are created from.
RepoRequests ==
    {[caller |-> "alice", d |-> 1, mode |-> "document", res |-> "base", prio |-> 5],
     [caller |-> "bob", d |-> 2, mode |-> "figure", res |-> "large", prio |-> 9]}

\* The arguments of UpdateStatus and UpdateProgress.
RepoStatuses == Terminal \cup {JobStatusPending, JobStatusProcessing}
RepoMessages == {NoMsg, DocMsg}
RepoProgress == {50}

\* JobRepository.Create under a fresh id.
RepoCreate(req) ==
    /\ submitted < MaxRepoJobs
    /\ LET j == submitted + 1 IN
          /\ jobs' = jobs @@ (j :> NewJob(req.caller, req.d, req.mode, req.res,
                                          req.prio, j))
          /\ submitted' = j
    /\ UNCHANGED <<results, procs, cancels, deletes, engineLog, cancelOver,
                   storeFailures, nPulls, nCancels, nDeletes, docs, resp,
                   limiterVars, uploadVars>>

\* JobRepository.UpdateStatus(j, status, errorMessage).
RepoUpdateStatus(j, status, errorMessage) ==
    /\ (status = JobStatusProcessing /\ j \in DOMAIN jobs)
          => jobs[j].started_at < MaxRepoWrites
    /\ jobs' = WriteStatus(j, status, errorMessage, FALSE)
    /\ UNCHANGED <<results, procs, cancels, deletes, engineLog, cancelOver,
                   submitted, storeFailures, nPulls, nCancels, nDeletes, docs, resp,
                   limiterVars, uploadVars>>

\* JobRepository.UpdateProgress(j, progress).
RepoUpdateProgress(j, progress) ==
    /\ jobs' = IF j \in DOMAIN jobs
               THEN WriteRow(j, UpdateProgress(jobs[j], progress), FALSE)
               ELSE jobs
    /\ UNCHANGED <<results, procs, cancels, deletes, engineLog, cancelOver,
                   submitted, storeFailures, nPulls, nCancels, nDeletes, docs, resp,
                   limiterVars, uploadVars>>

\* JobRepository.IncrementRetryCount(j).
RepoIncrementRetryCount(j) ==
    /\ j \in DOMAIN jobs => jobs[j].retry_count < MaxRepoWrites
    /\ jobs' = IF j \in DOMAIN jobs
               THEN WriteRow(j, IncrementRetryCount(jobs[j]), FALSE)
               ELSE jobs
    /\ UNCHANGED <<results, procs, cancels, deletes, engineLog, cancelOver,
                   submitted, storeFailures, nPulls, nCancels, nDeletes, docs, resp,
                   limiterVars, uploadVars>>

NextRepo ==
    \/ \E req \in RepoRequests : RepoCreate(req)
    \/ \E j \in RepoRefs, status \in RepoStatuses, errorMessage \in RepoMessages :
          RepoUpdateStatus(j, status, errorMessage)
    \/ \E j \in RepoRefs, progress \in RepoProgress : RepoUpdateProgress(j, progress)
    \/ \E j \in RepoRefs : RepoIncrementRetryCount(j)

SpecRepo == Init /\ [][NextRepo]_vars

\* The fields of a row that SubmitJob fixes.
Fixed(row) ==
    <<row.document_id, row.user_id, row.ocr_mode, row.resolution_mode,
      row.priority, row.max_retries, row.created_at>>

\* The jobs whose row a step changes.
Touched == {k \in DOMAIN jobs \cap DOMAIN jobs' : jobs'[k] # jobs[k]}

\* C32: the fields fixed at submission never change and retry_count never
\* decreases; a write of UpdateStatus, UpdateProgress or
\* IncrementRetryCount changes no other field of the addressed job and no
\* field of any other job.
C32_FixedFields ==
    [][/\ \A k \in DOMAIN jobs :
             k \in DOMAIN jobs'
                 => /\ Fixed(jobs'[k]) = Fixed(jobs[k])
                    /\ jobs'[k].retry_count >= jobs[k].retry_count
       /\ Cardinality(Touched) <= 1]_vars

\* C32's case is reached: the three writes have changed job 1, and job 2
\* is as SubmitJob created it.
C32_Reached ==
    /\ DOMAIN jobs = {1, 2}
    /\ jobs[1].status = JobStatusFailed
    /\ jobs[1].started_at > 0
    /\ jobs[1].retry_count > 0
    /\ jobs[1].progress_percentage = 50
    /\ SubmittedJob(jobs[2], jobs[2].user_id)

\* ---- Progress of the dispatches ----

\* Every store call of the step succeeds.
StoreSucceeds == storeFailures' = storeFailures

\* A step of a processJob goroutine whose store calls succeed.
ProcStep ==
    /\ StoreSucceeds
    /\ \E p \in Running :
          \/ ProcGet(p) \/ ProcClaim(p) \/ ProcGetDoc(p) \/ ProcDocFailed(p)
          \/ ProcEngine(p) \/ ProcMarkFailed(p) \/ ProcIncrement(p)
          \/ ProcRequeue(p) \/ ProcRedispatch(p) \/ ProcSave(p)
          \/ ProcSaveFailed(p) \/ ProcComplete(p)

\* The calls of the API that change a job or a document, and the
\* goroutines SubmitJob starts, while the store answers every call.
NextLive ==
    \/ StoreSucceeds /\ \E caller \in Users, d \in DocRefs : SubmitJob(caller, d)
    \/ StoreSucceeds /\ \E caller \in Users, d \in DocRefs : DeleteDocument(caller, d)
    \/ StoreSucceeds /\ \E p \in Running : ProcGet(p)
    \/ StoreSucceeds /\ \E p \in Running : ProcClaim(p)
    \/ StoreSucceeds /\ \E p \in Running : ProcGetDoc(p)
    \/ StoreSucceeds /\ \E p \in Running : ProcDocFailed(p)
    \/ StoreSucceeds /\ \E p \in Running : ProcEngine(p)
    \/ StoreSucceeds /\ \E p \in Running : ProcMarkFailed(p)
    \/ StoreSucceeds /\ \E p \in Running : ProcIncrement(p)
    \/ StoreSucceeds /\ \E p \in Running : ProcRequeue(p)
    \/ StoreSucceeds /\ \E p \in Running : ProcRedispatch(p)
    \/ StoreSucceeds /\ \E p \in Running : ProcSave(p)
    \/ StoreSucceeds /\ \E p \in Running : ProcSaveFailed(p)
    \/ StoreSucceeds /\ \E p \in Running : ProcComplete(p)
    \/ \E caller \in Users, j \in JobIds : nCancels < MaxCancels /\ CancelGet(caller, j)
    \/ StoreSucceeds /\ \E caller \in Users, j \in JobIds : CancelWrite(caller, j)
    \/ \E caller \in Users, j \in JobIds : DeleteGet(caller, j)
    \/ StoreSucceeds /\ \E caller \in Users, j \in JobIds : DeleteWrite(caller, j)

\* The goroutines are run fairly: the engine call returns, the sleep ends,
\* every other step is taken.
SpecLive == Init /\ [][NextLive]_vars /\ WF_vars(ProcStep)

\* Job j is at rest for good: deleted or terminal, with no dispatch or
\* re-dispatch outstanding.
Settled(j) ==
    /\ j \in DOMAIN jobs => jobs[j].status \in Terminal
    /\ ~Dispatching(j)

\* C33: when every engine call returns, the store operations succeed and
\* the goroutines are run fairly, every submitted job eventually is
\* completed, failed, cancelled or deleted with no dispatch or re-dispatch
\* outstanding, and stays so: no job is pending or processing forever.
C33_EventuallySettled ==
    \A j \in JobIds : [](j \in DOMAIN jobs => <>[]Settled(j))

\* Under SpecLive no dispatch waits at the bound on engine calls.
C33_EngineBoundNotMet ==
    \A j \in JobIds : Len(engineLog[j]) < MaxEngineCalls

\* C33's case is reached: a job has settled as completed after a retry.
C33_Reached ==
    \E j \in DOMAIN jobs :
        /\ Settled(j)
        /\ jobs[j].status = JobStatusCompleted
        /\ jobs[j].retry_count > 0

\* The dispatch p of a job still in the table takes its step after a failed
\* documentRepo.GetByID, and the UPDATE of that step succeeds.
DocFailedStep(p) ==
    /\ p.pc = "docfailed"
    /\ procs' = Exit(p)
    /\ p.job \in DOMAIN jobs
    /\ storeFailures' = storeFailures

\* What the step after a failed documentRepo.GetByID does to the job of p:
\* failed with the document message, no engine call by this dispatch,
\* retry_count as it was, no dispatch of the job left.
DocFailedEffect(p) ==
    /\ jobs'[p.job].status = JobStatusFailed
    /\ jobs'[p.job].error_message = DocMsg
    /\ jobs'[p.job].retry_count = jobs[p.job].retry_count
    /\ p.call = 0
    /\ engineLog' = engineLog
    /\ results' = results
    /\ \A q \in BagToSet(procs') : q.job # p.job

\* C34: when the job's document cannot be fetched at dispatch time,
\* processJob moves the job from processing (which it wrote over pending)
\* to failed with the error_message of the document failure, without
\* calling the engine, incrementing retry_count or scheduling a retry.
C34_DocumentFailure ==
    [][\A p \in Running :
          DocFailedStep(p)
              => /\ jobs[p.job].status = JobStatusProcessing
                 /\ DocFailedEffect(p)]_vars

\* C34 on a job no CancelJob has been admitted for.
C34_NoCancel ==
    [][\A p \in Running :
          (DocFailedStep(p) /\ nCancels = 0)
              => /\ jobs[p.job].status = JobStatusProcessing
                 /\ DocFailedEffect(p)]_vars

\* C34 whatever status the step overwrites.
C34_Effect ==
    [][\A p \in Running : DocFailedStep(p) => DocFailedEffect(p)]_vars

\* The document failure of C34 after a soft delete: a job has failed on a
\* document deleted after SubmitJob.
C34_SoftDeleteReached ==
    \E j \in DOMAIN jobs :
        /\ jobs[j].status = JobStatusFailed
        /\ jobs[j].error_message = DocMsg
        /\ docs[jobs[j].document_id].deleted
        /\ storeFailures = 0

\* The engine calls made for job j that failed.
FailedAttempts(j) == {i \in 1..Len(engineLog[j]) : engineLog[j][i] = "fail"}

\* The last of them.
LastFailedAttempt(j) ==
    CHOOSE i \in FailedAttempts(j) : \A k \in FailedAttempts(j) : k <= i

\* C35, first part: no step sets a job's error_message back to unset.
C35_NeverCleared ==
    [][\A j \in DOMAIN jobs :
          (j \in DOMAIN jobs' /\ jobs[j].error_message # NoMsg)
              => jobs'[j].error_message # NoMsg]_vars

\* The error_message of job j agrees with the attempts made for it: a job
\* completed after failed attempts carries the message of the last of them,
\* and a job without a failed attempt carries none (the messages of the
\* document and result-write failures are those attempts' own).
MessageOfLastFailure(j) ==
    /\ (jobs[j].status = JobStatusCompleted /\ FailedAttempts(j) # {})
          => jobs[j].error_message = OcrMsg(LastFailedAttempt(j))
    /\ (FailedAttempts(j) = {} /\ jobs[j].error_message \notin {DocMsg, SaveMsg})
          => jobs[j].error_message = NoMsg

\* C35: error_message, once written, is never cleared by a later
\* transition: a job that completes after k >= 1 failed attempts is
\* completed with the error_message of its last failed attempt, and a job
\* that never had a failed attempt has error_message unset.
C35_ErrorMessageKept ==
    [][/\ \A j \in DOMAIN jobs :
             (j \in DOMAIN jobs' /\ jobs[j].error_message # NoMsg)
                 => jobs'[j].error_message # NoMsg
       /\ \A j \in DOMAIN jobs' : MessageOfLastFailure(j)']_vars

\* C35 while every store call has succeeded.
C35_KeptNoStoreFailure ==
    \A j \in DOMAIN jobs : storeFailures = 0 => MessageOfLastFailure(j)

\* The case of C35 is reached: a job completed after a failed attempt with
\* that attempt's message.
C35_CompletedWithMessage ==
    \E j \in DOMAIN jobs :
        /\ jobs[j].status = JobStatusCompleted
        /\ FailedAttempts(j) # {}
        /\ jobs[j].error_message = OcrMsg(LastFailedAttempt(j))

\* Job j was created and its row is gone.
Gone(j) == j <= submitted /\ j \notin DOMAIN jobs

\* C36: a deleted job stays deleted and leaves no orphan: once DeleteJob
\* has removed a job, no step (of a processJob still in flight or scheduled
\* for it, or any other) recreates its row, and no Result row exists whose
\* job is gone.
C36_DeletedStaysDeleted ==
    [][\A j \in JobIds :
          /\ Gone(j) => j \notin DOMAIN jobs'
          /\ Gone(j)' => results'[j] = << >>]_vars

\* C36's case is reached: the job was deleted while a dispatch of it was
\* at its Result insert, and the insert was rejected.
C36_Reached ==
    \E p \in Running :
        /\ Gone(p.job)
        /\ p.pc = "savefailed"
        /\ storeFailures = 0

\* The requests of ip let through since the last refill of its bucket
\* (its creation included).
SinceRefill(ip) ==
    Len(SelectSeq(admitted[ip], LAMBDA t : t >= visitors[ip].lastRefill))

\* A request of ip now would refill its bucket.
RefillDue(ip) == clock - visitors[ip].lastRefill >= AuthWindow

\* The step is a request of ip to the limiter.
Requests(ip) == nRequests' # nRequests /\ resp'.caller = ip

\* C37: every visitor's tokens stay within 0..rate; between two
\* consecutive refills of a visitor allow lets through at most rate
\* requests and refuses all others; a request from one IP changes no
\* other IP's visitor.
C37_TokenAccounting ==
    [][/\ \A ip \in DOMAIN visitors' :
             /\ visitors'[ip].tokens \in 0..AuthRate
             /\ SinceRefill(ip)' <= AuthRate
             /\ ~RefillDue(ip)' => SinceRefill(ip)' = AuthRate - visitors'[ip].tokens
       /\ \A ip \in IPs :
             Requests(ip)
                 => /\ resp'.out.status = 429
                         <=> /\ ip \in DOMAIN visitors
                             /\ ~RefillDue(ip)
                             /\ SinceRefill(ip) = AuthRate
                    /\ resp'.out.status = 429 <=> admitted' = admitted
                    /\ \A other \in DOMAIN visitors \ {ip} :
                          /\ other \in DOMAIN visitors'
                          /\ visitors'[other] = visitors[other]]_vars

\* C37's case is reached: a request was refused while another IP has a
\* visitor of its own.
C37_Reached ==
    /\ resp.op = "RateLimit"
    /\ resp.out.status = 429
    /\ DOMAIN visitors = IPs
    /\ \E ip \in IPs : visitors[ip].tokens \in 1..(AuthRate - 1)

====
